---- MODULE Spec2Model ----
(***************************************************************************)
(* State-machine model of the tradebet browser demos:                      *)
(*   - the Liquidity-Based Crash Simulator   (src/unnamed/part_000:1-435)  *)
(*   - the who-scores-first exchange         (src/app.js:1-382)            *)
(*   - the ratio-policy exchange             (src/app.js:384-791)          *)
(*   - the mark-to-market exchange           (src/unnamed/part_000:437-)   *)
(*                                                                         *)
(* Every event handler / timer callback of a page is one action.  The      *)
(* variable `variant` says which page is loaded; the four pages never      *)
(* share state, so a behaviour stays inside one page.                      *)
(*                                                                         *)
(* Numbers.  Crash simulator: multipliers are kept by the code on a grid   *)
(* of 0.01 (toFixed(2)), stakes are floored integers, so every monetary    *)
(* amount is a multiple of 0.01.  The model stores multipliers, liquidity, *)
(* reserve and payouts in HUNDREDTHS (0.50 is 50, a liquidity of 3 naira   *)
(* is 300); stakes are whole naira.  Exchange pages: pools are integers,   *)
(* odds and payouts are exact rationals <<num, den>>.  IEEE-754 rounding   *)
(* of the JavaScript doubles is not modelled.                              *)
(***************************************************************************)
EXTENDS Integers, Sequences, FiniteSets, TLC

VARIABLES
  variant,            \* which page is loaded: "crash" | "wsf" | "ratio" | "mtm"
  lastOp,             \* history: the crash-simulator handler / callback that ran last
  \* ---- crash simulator (part_000:27-41)
  phase,              \* state.phase
  nextPlayerId,       \* state.nextPlayerId
  liquidity,          \* state.liquidity   (hundredths)
  reserve,            \* state.reserve     (hundredths)
  multiplier,         \* state.multiplier  (hundredths)
  timerId,            \* state.timerId     # null
  countdownId,        \* state.countdownId # null
  countdown,          \* state.countdown
  playersActive,      \* playersActive, most recent first
  playersCashedOut,   \* playersCashedOut, most recent first
  flightIntervals,    \* number of live setInterval registrations of the flight tick
  countdownIntervals, \* number of live setInterval registrations of the countdown tick
  \* ---- exchange pages (app.js:52-59, app.js:435-444, part_000:488-499)
  minute,             \* state.minute
  running,            \* state.running
  ended,              \* state.ended
  matchTimerId,       \* state.timerId # null
  matchIntervals,     \* number of live setInterval registrations of the match clock
  cashoutArmed,       \* state.cashoutArmed                (ratio, mtm)
  cashoutEntry,       \* state.cashoutEntry, NoEntry = null (mtm)
  settlement,         \* state.settlement, NoSettlement = null
  agreePool,          \* agreePoolInput.value    (wsf: arsenalPoolInput.value)
  disagreePool,       \* disagreePoolInput.value (wsf: liverpoolPoolInput.value)
  cashoutSide,        \* cashoutSideSel.value                (ratio, mtm)
  cashoutStake,       \* cashoutStakeInput.value             (ratio, mtm)
  cashoutValueEl,     \* cashoutValueEl.textContent: Dash or the amount shown
  cashoutMsgEl,       \* cashoutMsgEl.textContent            (mtm)
  execDisabled,       \* execCashoutBtn.disabled             (mtm)
  finalPayoutEl,      \* finalPayoutEl.textContent: Dash or the amount shown
  finalMsgEl          \* finalMsgEl.textContent              (wsf, mtm)

crashVars == <<phase, nextPlayerId, liquidity, reserve, multiplier, timerId,
               countdownId, countdown, playersActive, playersCashedOut,
               flightIntervals, countdownIntervals>>

exVars == <<minute, running, ended, matchTimerId, matchIntervals, cashoutArmed,
            cashoutEntry, settlement, agreePool, disagreePool, cashoutSide,
            cashoutStake, cashoutValueEl, cashoutMsgEl, execDisabled, finalPayoutEl,
            finalMsgEl>>

vars == <<variant, lastOp, crashVars, exVars>>

\* ------------------------------------------------------------------ bounds
MaxStake == 3         \* stake inputs range over -1 .. MaxStake in steps of 1/2, and NaN
MaxPlayers == 2       \* positions staked per round
MaxLiquidity == 3     \* addStake is explored while liquidity stays <= MaxLiquidity naira
MaxMultiplier == 54  \* flight ticks are explored while the round multiplier is below this
MaxPool == 2          \* pool inputs range over 0 .. MaxPool
MaxIntervals == 2     \* startTimer is explored while fewer than this many intervals are live
MaxMinute == 2        \* the match clock is explored while minute < MaxMinute
MaxFlightMultiplier == 104  \* single-position flights are explored while the round multiplier is below this

\* ------------------------------------------------ crash simulator constants
INITIAL_LIQUIDITY == 0
START_MULTIPLIER == 50      \* 0.50
MULTIPLIER_STEP == 2        \* 0.02
COUNTDOWN_SECONDS == 10

\* ------------------------------------------------- exchange pages constants
EXIT_FEE == 3               \* 0.03, in percent
FULL_TIME == 90             \* the clock ends the match at minute >= 90
MAX_GOALS == 4              \* randomInt(0, 4)

\* ---------------------------------------------------------------- helpers
Max(a, b) == IF a >= b THEN a ELSE b
Min(a, b) == IF a <= b THEN a ELSE b

\* Raw text of a numeric input: nan for text that Number() turns into NaN or an
\* infinity, otherwise the number half/2 (so that fractions are covered).
RawInputs ==
  {[nan |-> TRUE, half |-> 0]} \cup {[nan |-> FALSE, half |-> h] : h \in -2 .. 2 * MaxStake}

\* mutant: the input is floored without safeNumber's max(0, n)
FloorSafeNumber_noClamp(v) == IF v.nan THEN 0 ELSE v.half \div 2

\* Math.floor(safeNumber(v)) for a raw input v (safeNumber: non-finite -> 0,
\* then max(0, n)); h \div 2 is the floor of h/2.
FloorSafeNumber(v) == IF v.nan THEN 0 ELSE Max(0, v.half) \div 2

\* p.stake * p.entryMultiplier, in hundredths
RequiredPayout(p) == p.stake * p.entryMultiplier

\* mutant: only the most recent player is looked at (the loop is lost)
maxRequiredPayout_headOnly(active) ==
  IF active = << >> THEN 0 ELSE RequiredPayout(Head(active))

RECURSIVE maxRequiredPayout(_)
maxRequiredPayout(active) ==
  IF active = << >> THEN 0
  ELSE Max(RequiredPayout(Head(active)), maxRequiredPayout(Tail(active)))

\* mutant: the round also crashes when liquidity exactly covers the payout
shouldCrashNow_atEqual(active, liq) ==
  LET needed == maxRequiredPayout(active)
  IN IF ~(needed > 0) THEN FALSE ELSE needed >= liq

shouldCrashNow(active, liq) ==
  LET needed == maxRequiredPayout(active)
  IN IF ~(needed > 0) THEN FALSE ELSE needed > liq

RECURSIVE Reverse(_)
Reverse(s) == IF s = << >> THEN << >> ELSE Append(Reverse(Tail(s)), Head(s))

LostRecord(p) ==
  [id |-> p.id, stake |-> p.stake, entryMultiplier |-> p.entryMultiplier,
   status |-> "lost", cashoutMultiplier |-> p.entryMultiplier, finalPayout |-> 0]

\* mutant: clearIntervals() forgets the countdown interval
clearIntervals_keepsCountdown ==
  /\ flightIntervals' = IF timerId THEN flightIntervals - 1 ELSE flightIntervals
  /\ timerId' = FALSE
  /\ UNCHANGED <<countdownIntervals, countdownId>>

\* clearIntervals(): each non-null handle names one live interval
clearIntervals ==
  /\ flightIntervals' = IF timerId THEN flightIntervals - 1 ELSE flightIntervals
  /\ timerId' = FALSE
  /\ countdownIntervals' = IF countdownId THEN countdownIntervals - 1 ELSE countdownIntervals
  /\ countdownId' = FALSE

\* mutant: crash() marks the players lost but forgets to empty the active list
crash_leavesActive(liq, act) ==
  /\ reserve' = liq
  /\ liquidity' = liq
  /\ phase' = "crashed"
  /\ clearIntervals
  /\ playersCashedOut' = Reverse([i \in 1..Len(act) |-> LostRecord(act[i])]) \o playersCashedOut
  /\ playersActive' = act

\* crash() run on liquidity liq and active list act (the values the caller
\* has produced so far); every active player is unshifted as lost.
crash(liq, act) ==
  /\ reserve' = liq
  /\ liquidity' = liq
  /\ phase' = "crashed"
  /\ clearIntervals
  /\ playersCashedOut' = Reverse([i \in 1..Len(act) |-> LostRecord(act[i])]) \o playersCashedOut
  /\ playersActive' = << >>

\* the exchange variables while the crash simulator page is the one loaded
NoExchangePage ==
  /\ minute = 1 /\ running = FALSE /\ ended = FALSE
  /\ matchTimerId = FALSE /\ matchIntervals = 0
  /\ cashoutArmed = FALSE
  /\ cashoutEntry = [side |-> "none", stake |-> 0, entryOdds |-> <<0, 1>>]
  /\ settlement = [set |-> FALSE]
  /\ agreePool = 0 /\ disagreePool = 0
  /\ cashoutSide = "Agree" /\ cashoutStake = 0
  /\ cashoutValueEl = << >> /\ cashoutMsgEl = "" /\ execDisabled = TRUE
  /\ finalPayoutEl = << >> /\ finalMsgEl = ""

OnCrashPage == variant = "crash" /\ UNCHANGED <<variant, exVars>>

\* ---------------------------------------------------- crash simulator: init
InitCrashVars ==
  /\ phase = "idle"
  /\ nextPlayerId = 1
  /\ liquidity = INITIAL_LIQUIDITY
  /\ reserve = 0
  /\ multiplier = START_MULTIPLIER
  /\ timerId = FALSE
  /\ countdownId = FALSE
  /\ countdown = COUNTDOWN_SECONDS
  /\ playersActive = << >>
  /\ playersCashedOut = << >>
  /\ flightIntervals = 0
  /\ countdownIntervals = 0

\* ------------------------------------------------- crash simulator: actions
\* mutant: beginFlight() does not register the tick
beginFlight_noTimer ==
  /\ phase' = "flying"
  /\ multiplier' = START_MULTIPLIER
  /\ timerId' = FALSE
  /\ flightIntervals' = flightIntervals

\* beginFlight(): setPhase("flying"), reset the round multiplier, register the tick
beginFlight ==
  /\ phase' = "flying"
  /\ multiplier' = START_MULTIPLIER
  /\ timerId' = TRUE
  /\ flightIntervals' = flightIntervals + 1

\* mutant: the phase guard of startCountdown is lost
startCountdown_noGuard ==
  /\ OnCrashPage
  /\ lastOp' = "startCountdown"
  /\ multiplier' = START_MULTIPLIER
  /\ phase' = "countdown"
  /\ countdown' = COUNTDOWN_SECONDS
  /\ countdownId' = TRUE
  /\ countdownIntervals' = countdownIntervals + 1
  /\ UNCHANGED <<nextPlayerId, liquidity, reserve, timerId, playersActive,
                 playersCashedOut, flightIntervals>>

startCountdown ==
  /\ OnCrashPage
  /\ lastOp' = "startCountdown"
  /\ IF phase # "idle"
       THEN UNCHANGED crashVars
       ELSE /\ multiplier' = START_MULTIPLIER
            /\ phase' = "countdown"
            /\ countdown' = COUNTDOWN_SECONDS
            /\ countdownId' = TRUE
            /\ countdownIntervals' = countdownIntervals + 1
            /\ UNCHANGED <<nextPlayerId, liquidity, reserve, timerId, playersActive,
                           playersCashedOut, flightIntervals>>

\* mutant: the flight begins one tick early (countdown <= 1)
CountdownTick_early ==
  /\ OnCrashPage
  /\ countdownIntervals > 0
  /\ lastOp' = "countdownTick"
  /\ countdown' = countdown - 1
  /\ IF countdown - 1 <= 1
       THEN /\ countdownIntervals' =
                 IF countdownId THEN countdownIntervals - 1 ELSE countdownIntervals
            /\ countdownId' = FALSE
            /\ beginFlight
       ELSE UNCHANGED <<phase, multiplier, timerId, countdownId, flightIntervals,
                        countdownIntervals>>
  /\ UNCHANGED <<nextPlayerId, liquidity, reserve, playersActive, playersCashedOut>>

\* the setInterval callback registered by startCountdown
CountdownTick ==
  /\ OnCrashPage
  /\ countdownIntervals > 0
  /\ lastOp' = "countdownTick"
  /\ countdown' = countdown - 1
  /\ IF countdown - 1 <= 0
       THEN /\ countdownIntervals' =
                 IF countdownId THEN countdownIntervals - 1 ELSE countdownIntervals
            /\ countdownId' = FALSE
            /\ beginFlight
       ELSE UNCHANGED <<phase, multiplier, timerId, countdownId, flightIntervals,
                        countdownIntervals>>
  /\ UNCHANGED <<nextPlayerId, liquidity, reserve, playersActive, playersCashedOut>>

\* mutant: the tick leaves the positions' multipliers alone
Advance_none(active) == active

\* every active player's multiplier advanced by one step
Advance(active) ==
  [i \in 1..Len(active) |->
     [active[i] EXCEPT !.entryMultiplier = active[i].entryMultiplier + MULTIPLIER_STEP]]

\* the setInterval callback registered by beginFlight, explored while the
\* round multiplier is below cap
FlightTickUpTo(cap) ==
  /\ OnCrashPage
  /\ flightIntervals > 0
  /\ multiplier < cap
  /\ lastOp' = "flightTick"
  /\ multiplier' = multiplier + MULTIPLIER_STEP
  /\ LET act == Advance(playersActive)
     IN IF shouldCrashNow(act, liquidity)
          THEN crash(liquidity, act)
          ELSE /\ playersActive' = act
               /\ UNCHANGED <<phase, liquidity, reserve, timerId, countdownId,
                              playersCashedOut, flightIntervals, countdownIntervals>>
  /\ UNCHANGED <<nextPlayerId, countdown>>

FlightTick == FlightTickUpTo(MaxMultiplier)

\* mutant: the amount is not tested, only the phase
addStake_noValidation(raw) ==
  /\ OnCrashPage
  /\ lastOp' = "addStake"
  /\ LET stake == FloorSafeNumber(raw)
         liq == liquidity + 100 * stake
         player == [id |-> nextPlayerId, stake |-> stake,
                    entryMultiplier |-> START_MULTIPLIER]
         act == <<player>> \o playersActive
     IN IF phase = "crashed"
          THEN UNCHANGED crashVars
          ELSE /\ nextPlayerId < MaxPlayers + 1
               /\ liq <= 100 * MaxLiquidity
               /\ nextPlayerId' = nextPlayerId + 1
               /\ IF phase = "flying" /\ shouldCrashNow(act, liq)
                    THEN crash(liq, act)
                    ELSE /\ liquidity' = liq
                         /\ playersActive' = act
                         /\ UNCHANGED <<phase, reserve, timerId, countdownId,
                                        playersCashedOut, flightIntervals,
                                        countdownIntervals>>
               /\ UNCHANGED <<multiplier, countdown>>

addStake(raw) ==
  /\ OnCrashPage
  /\ lastOp' = "addStake"
  /\ LET stake == FloorSafeNumber(raw)
         liq == liquidity + 100 * stake
         player == [id |-> nextPlayerId, stake |-> stake,
                    entryMultiplier |-> START_MULTIPLIER]
         act == <<player>> \o playersActive
     IN IF phase = "crashed" \/ ~(stake > 0)
          THEN UNCHANGED crashVars
          ELSE /\ nextPlayerId < MaxPlayers + 1
               /\ liq <= 100 * MaxLiquidity
               /\ nextPlayerId' = nextPlayerId + 1
               /\ IF phase = "flying" /\ shouldCrashNow(act, liq)
                    THEN crash(liq, act)
                    ELSE /\ liquidity' = liq
                         /\ playersActive' = act
                         /\ UNCHANGED <<phase, reserve, timerId, countdownId,
                                        playersCashedOut, flightIntervals,
                                        countdownIntervals>>
               /\ UNCHANGED <<multiplier, countdown>>

\* index of the first active player with this id, 0 when there is none (findIndex)
findIndex(active, playerId) ==
  IF \E i \in 1..Len(active) : active[i].id = playerId
    THEN CHOOSE i \in 1..Len(active) :
           /\ active[i].id = playerId
           /\ \A j \in 1..(i - 1) : active[j].id # playerId
    ELSE 0

\* mutant: the splice always takes the first position of the list
RemoveAt_first(s, idx) == Tail(s)

\* splice(idx, 1)
RemoveAt(s, idx) == [i \in 1..(Len(s) - 1) |-> IF i < idx THEN s[i] ELSE s[i + 1]]

\* mutant: the settled record carries the position in the list, not the id
CashedOutRecord_positionAsId(p, payout) ==
  [id |-> 1, stake |-> p.stake, entryMultiplier |-> p.entryMultiplier,
   status |-> "cashed_out", cashoutMultiplier |-> p.entryMultiplier,
   finalPayout |-> payout]

\* the record cashOutPlayer unshifts onto playersCashedOut
CashedOutRecord(p, payout) ==
  [id |-> p.id, stake |-> p.stake, entryMultiplier |-> p.entryMultiplier,
   status |-> "cashed_out", cashoutMultiplier |-> p.entryMultiplier,
   finalPayout |-> payout]

\* mutant: the payout is not deducted from the liquidity
cashOutPlayer_noDebit(playerId) ==
  /\ OnCrashPage
  /\ lastOp' = "cashOutPlayer"
  /\ LET idx == findIndex(playersActive, playerId)
     IN IF phase # "flying" \/ idx = 0
          THEN UNCHANGED crashVars
          ELSE LET p == playersActive[idx]
                   payout == RequiredPayout(p)
                   act == RemoveAt(playersActive, idx)
                   liq == liquidity
               IN /\ IF payout > liquidity
                       THEN crash(liquidity, playersActive)
                       ELSE IF shouldCrashNow(act, liq)
                         THEN /\ reserve' = liq
                              /\ liquidity' = liq
                              /\ phase' = "crashed"
                              /\ clearIntervals
                              /\ playersCashedOut' =
                                   Reverse([i \in 1..Len(act) |-> LostRecord(act[i])])
                                     \o (<<CashedOutRecord(p, payout)>> \o playersCashedOut)
                              /\ playersActive' = << >>
                         ELSE /\ liquidity' = liq
                              /\ playersActive' = act
                              /\ playersCashedOut' =
                                   <<CashedOutRecord(p, payout)>> \o playersCashedOut
                              /\ UNCHANGED <<phase, reserve, timerId, countdownId,
                                             flightIntervals, countdownIntervals>>
                  /\ UNCHANGED <<nextPlayerId, multiplier, countdown>>

\* click handler of a position's cash-out button
cashOutPlayer(playerId) ==
  /\ OnCrashPage
  /\ lastOp' = "cashOutPlayer"
  /\ LET idx == findIndex(playersActive, playerId)
     IN IF phase # "flying" \/ idx = 0
          THEN UNCHANGED crashVars
          ELSE LET p == playersActive[idx]
                   payout == RequiredPayout(p)
                   act == RemoveAt(playersActive, idx)
                   liq == Max(0, liquidity - payout)
               IN /\ IF payout > liquidity
                       THEN crash(liquidity, playersActive)
                       ELSE IF shouldCrashNow(act, liq)
                         THEN /\ reserve' = liq
                              /\ liquidity' = liq
                              /\ phase' = "crashed"
                              /\ clearIntervals
                              /\ playersCashedOut' =
                                   Reverse([i \in 1..Len(act) |-> LostRecord(act[i])])
                                     \o (<<CashedOutRecord(p, payout)>> \o playersCashedOut)
                              /\ playersActive' = << >>
                         ELSE /\ liquidity' = liq
                              /\ playersActive' = act
                              /\ playersCashedOut' =
                                   <<CashedOutRecord(p, payout)>> \o playersCashedOut
                              /\ UNCHANGED <<phase, reserve, timerId, countdownId,
                                             flightIntervals, countdownIntervals>>
                  /\ UNCHANGED <<nextPlayerId, multiplier, countdown>>

\* mutant: the new round starts from INITIAL_LIQUIDITY, the carry-over is lost
restartGame_noCarryOver ==
  /\ OnCrashPage
  /\ lastOp' = "restartGame"
  /\ clearIntervals
  /\ playersActive' = << >>
  /\ playersCashedOut' = << >>
  /\ nextPlayerId' = 1
  /\ liquidity' = INITIAL_LIQUIDITY
  /\ multiplier' = START_MULTIPLIER
  /\ phase' = "idle"
  /\ UNCHANGED <<reserve, countdown>>

restartGame ==
  /\ OnCrashPage
  /\ lastOp' = "restartGame"
  /\ clearIntervals
  /\ playersActive' = << >>
  /\ playersCashedOut' = << >>
  /\ nextPlayerId' = 1
  /\ liquidity' = reserve
  /\ multiplier' = START_MULTIPLIER
  /\ phase' = "idle"
  /\ UNCHANGED <<reserve, countdown>>

\* click handler of resetLiquidityBtn
resetLiquidity ==
  /\ OnCrashPage
  /\ lastOp' = "resetLiquidity"
  /\ IF phase = "flying" /\ shouldCrashNow(playersActive, 0)
       THEN crash(0, playersActive)
       ELSE /\ liquidity' = 0
            /\ reserve' = 0
            /\ UNCHANGED <<phase, timerId, countdownId, playersActive, playersCashedOut,
                           flightIntervals, countdownIntervals>>
  /\ UNCHANGED <<nextPlayerId, multiplier, countdown>>

NextCrash ==
  \/ startCountdown
  \/ CountdownTick
  \/ FlightTick
  \/ \E raw \in RawInputs : addStake(raw)
  \/ \E playerId \in 1..MaxPlayers : cashOutPlayer(playerId)
  \/ restartGame
  \/ resetLiquidity

InitCrash == variant = "crash" /\ lastOp = "init" /\ InitCrashVars /\ NoExchangePage

SpecCrash == InitCrash /\ [][NextCrash]_vars


\* =========================================================== exchange pages

\* ------------------------------------------------------ exact rationals
Abs(x) == IF x < 0 THEN -x ELSE x

RECURSIVE Gcd(_, _)
Gcd(a, b) == IF b = 0 THEN a ELSE Gcd(b, a % b)

\* the fraction n/d (d > 0) in lowest terms
Rat(n, d) == LET g == Gcd(Abs(n), d) IN <<n \div g, d \div g>>
FromInt(i) == <<i, 1>>
Zero == <<0, 1>>
RAdd(a, b) == Rat(a[1] * b[2] + b[1] * a[2], a[2] * b[2])
RSub(a, b) == Rat(a[1] * b[2] - b[1] * a[2], a[2] * b[2])
RMul(a, b) == Rat(a[1] * b[1], a[2] * b[2])
RLt(a, b) == a[1] * b[2] < b[1] * a[2]
RLe(a, b) == a[1] * b[2] <= b[1] * a[2]
\* mutant: Math.min that keeps its first argument (no liquidity cap)
RMin_first(a, b) == a

RMin(a, b) == IF RLe(a, b) THEN a ELSE b
RMax(a, b) == IF RLe(a, b) THEN b ELSE a
\* Math.floor and Math.round (round half up)
RFloor(a) == a[1] \div a[2]
RRound(a) == (2 * a[1] + a[2]) \div (2 * a[2])

\* mutant: a denominator <= 0 gives 1 instead of the sentinel 0
safeDivide_oneWhenEmpty(numerator, denominator) ==
  IF RLe(denominator, Zero) THEN FromInt(1)
  ELSE Rat(numerator[1] * denominator[2], numerator[2] * denominator[1])

\* safeDivide: 0 for a denominator <= 0 (the operands are always finite here)
safeDivide(numerator, denominator) ==
  IF RLe(denominator, Zero) THEN Zero
  ELSE Rat(numerator[1] * denominator[2], numerator[2] * denominator[1])

clampNumber(value, min, max) == RMin(RMax(value, min), max)

\* mutant: no exit fee is taken
OneMinusFee_noFee == FromInt(1)

\* 1 - EXIT_FEE
OneMinusFee == Rat(100 - EXIT_FEE, 100)

\* ------------------------------------------------------------ DOM text
\* A money field shows "—" (Dash) or, through fmtMoney, the amount rounded to
\* a whole naira (Shown(x)); the currency formatting itself is not modelled.
Dash == << >>
Shown(x) == <<RRound(x)>>

NoEntry == [side |-> "none", stake |-> 0, entryOdds |-> Zero]
NoSettlement == [set |-> FALSE]

\* reason strings of calculateCashout / executeCashout
ReasonNotLive == "Match must be LIVE (started, not paused, not ended)."
ReasonStakePositive == "Stake must be greater than 0."
ReasonStakeExceedsPool == "Stake cannot exceed the available pool on your selected side."
ReasonInsufficientLiquidity == "Cashout unavailable (insufficient liquidity)."
ReasonNoOdds == "Cashout unavailable (cannot compute odds)."
ReasonStaleEntry == "Side/stake changed. Click Calculate Cashout again to set a new entry reference."
ReasonMissingEntryOdds == "Cashout unavailable (missing entry odds)."
ReasonNegativePool == "Cashout failed: pools would go negative."
\* texts of finalMsgEl
MsgFinalStakePositive == "Stake must be greater than 0."
MsgFinalStakeExceeds == "Stake cannot exceed the winning side pool from settlement."
MsgVoid == "No goal (0-0). Market void: payout is a refund (stake returned)."

CashoutSides == {"Agree", "Disagree"}
\* cashout and final stakes: a stake above every pool is rejected like MaxPool + 1
ExStakes == 0 .. MaxPool
PoolValues == 0 .. MaxPool
\* randomInt(0, MAX_GOALS) is explored at its two extremes: the code only
\* compares the two draws with each other and with 0
GoalDraws == {0, MAX_GOALS}
\* raw text typed into a pool or stake input of an exchange page: text that
\* is not a number, -1/2, every whole amount, and MaxPool + 1/2
ExRawInputs ==
  {[nan |-> TRUE, half |-> 0]} \cup
  {[nan |-> FALSE, half |-> h] : h \in {-1, 2 * MaxPool + 1} \cup {2 * v : v \in PoolValues}}

\* ------------------------------------------------------ core calculations
\* mutant: a paused or never started match counts as live
isLiveMatch_ignoresRunning == ~ended

isLiveMatch == ~ended /\ running

\* mutant: the stake is held against the total pool, not the user's side
UserPool_total(side, aPool, dPool) == aPool + dPool

\* getSidePools
UserPool(side, aPool, dPool) == IF side = "Agree" THEN aPool ELSE dPool
OppositePool(side, aPool, dPool) == IF side = "Agree" THEN dPool ELSE aPool

getImpliedOdds(totalPool, sidePool) == safeDivide(FromInt(totalPool), FromInt(sidePool))

CashoutFailure(reason, entry) ==
  [ok |-> FALSE, reason |-> reason, entry |-> entry,
   entryOdds |-> Zero, currentOdds |-> Zero, referenceValue |-> Zero,
   preFeeExit |-> Zero, exitPayout |-> Zero, profitLoss |-> Zero]

\* mutant: without an entry snapshot the valuation is refused instead of
\* taking one
calculateCashout_needsEntry(userSide, userStake, aPool, dPool, entry) ==
  LET totalPool == aPool + dPool
      userPool == UserPool(userSide, aPool, dPool)
      oppositePool == OppositePool(userSide, aPool, dPool)
      currentOdds == getImpliedOdds(totalPool, userPool)
      referenceValue == RMul(FromInt(userStake), safeDivide(entry.entryOdds, currentOdds))
      preFeeExit == RMin(referenceValue, FromInt(oppositePool))
      exitPayout == RMul(preFeeExit, OneMinusFee)
  IN IF ~isLiveMatch THEN CashoutFailure(ReasonNotLive, entry)
     ELSE IF ~(userStake > 0) THEN CashoutFailure(ReasonStakePositive, entry)
     ELSE IF userStake > userPool THEN CashoutFailure(ReasonStakeExceedsPool, entry)
     ELSE IF userPool <= 0 \/ oppositePool <= 0 \/ totalPool <= 0
       THEN CashoutFailure(ReasonInsufficientLiquidity, entry)
     ELSE IF RLe(currentOdds, Zero) THEN CashoutFailure(ReasonNoOdds, entry)
     ELSE IF entry = NoEntry \/ entry.side # userSide \/ entry.stake # userStake
       THEN CashoutFailure(ReasonStaleEntry, entry)
     ELSE IF ~RLt(Zero, entry.entryOdds) THEN CashoutFailure(ReasonMissingEntryOdds, entry)
     ELSE [ok |-> TRUE, reason |-> "", entry |-> entry,
           entryOdds |-> entry.entryOdds, currentOdds |-> currentOdds,
           referenceValue |-> referenceValue, preFeeExit |-> preFeeExit,
           exitPayout |-> exitPayout,
           profitLoss |-> RSub(exitPayout, FromInt(userStake))]

\* mark-to-market calculateCashout, called with state.cashoutEntry = entry;
\* the field entry of the result is state.cashoutEntry after the call.
calculateCashout(userSide, userStake, aPool, dPool, entry) ==
  LET totalPool == aPool + dPool
      userPool == UserPool(userSide, aPool, dPool)
      oppositePool == OppositePool(userSide, aPool, dPool)
      currentOdds == getImpliedOdds(totalPool, userPool)
      entry1 == IF entry = NoEntry
                  THEN [side |-> userSide, stake |-> userStake, entryOdds |-> currentOdds]
                  ELSE entry
      entryOdds == entry1.entryOdds
      referenceValue == RMul(FromInt(userStake), safeDivide(entryOdds, currentOdds))
      preFeeExit == RMin(referenceValue, FromInt(oppositePool))
      exitPayout == RMul(preFeeExit, OneMinusFee)
  IN IF ~isLiveMatch THEN CashoutFailure(ReasonNotLive, entry)
     ELSE IF ~(userStake > 0) THEN CashoutFailure(ReasonStakePositive, entry)
     ELSE IF userStake > userPool THEN CashoutFailure(ReasonStakeExceedsPool, entry)
     ELSE IF userPool <= 0 \/ oppositePool <= 0 \/ totalPool <= 0
       THEN CashoutFailure(ReasonInsufficientLiquidity, entry)
     ELSE IF RLe(currentOdds, Zero) THEN CashoutFailure(ReasonNoOdds, entry)
     ELSE IF entry1.side # userSide \/ entry1.stake # userStake
       THEN CashoutFailure(ReasonStaleEntry, entry1)
     ELSE IF ~RLt(Zero, entryOdds) THEN CashoutFailure(ReasonMissingEntryOdds, entry1)
     ELSE [ok |-> TRUE, reason |-> "", entry |-> entry1,
           entryOdds |-> entryOdds, currentOdds |-> currentOdds,
           referenceValue |-> referenceValue, preFeeExit |-> preFeeExit,
           exitPayout |-> exitPayout,
           profitLoss |-> RSub(exitPayout, FromInt(userStake))]

\* applyPools keeps Math.floor(Math.max(0, x)) of each pool
ApplyPool(x) == RFloor(RMax(Zero, x))

\* mutant: the stake is taken from the user's side before the result is
\* looked at
executeCashout_debitsFirst(userSide, userStake, aPool, dPool, entry) ==
  LET result == calculateCashout(userSide, userStake, aPool, dPool, entry)
  IN [result |-> result, applied |-> result.ok,
      nextA |-> IF userSide = "Agree" THEN Max(0, aPool - userStake) ELSE aPool,
      nextB |-> IF userSide = "Agree" THEN dPool ELSE Max(0, dPool - userStake)]

\* executeCashout on the live pools; result is what it returns, nextA / nextB
\* are the pool inputs after the call.  With exact fractions of denominator
\* below 10^9 the test x < -1e-9 is the test x < 0.
executeCashout(userSide, userStake, aPool, dPool, entry) ==
  LET result == calculateCashout(userSide, userStake, aPool, dPool, entry)
      nextA == IF userSide = "Agree" THEN FromInt(aPool - userStake)
               ELSE RSub(FromInt(aPool), result.exitPayout)
      nextB == IF userSide = "Agree" THEN RSub(FromInt(dPool), result.exitPayout)
               ELSE FromInt(dPool - userStake)
  IN IF ~result.ok
       THEN [result |-> result, applied |-> FALSE, nextA |-> aPool, nextB |-> dPool]
     ELSE IF RLt(nextA, Zero) \/ RLt(nextB, Zero)
       THEN [result |-> CashoutFailure(ReasonNegativePool, result.entry),
             applied |-> FALSE, nextA |-> aPool, nextB |-> dPool]
     ELSE [result |-> result, applied |-> TRUE,
           nextA |-> ApplyPool(nextA), nextB |-> ApplyPool(nextB)]

\* ratio-policy calcCashout
calcCashout(side, stake, aPool, dPool) ==
  LET userSidePool == UserPool(side, aPool, dPool)
      oppositePool == OppositePool(side, aPool, dPool)
      ratio == safeDivide(FromInt(oppositePool), FromInt(userSidePool))
      rawCashout == RMul(RMul(FromInt(stake), ratio), OneMinusFee)
      cappedCashout == clampNumber(rawCashout, Zero, FromInt(oppositePool))
  IN [userSidePool |-> userSidePool, oppositePool |-> oppositePool,
      rawCashout |-> rawCashout, cashout |-> cappedCashout,
      profitLoss |-> RSub(cappedCashout, FromInt(stake))]

\* what renderCashout leaves behind: the entry snapshot, the two texts and
\* the disabled flag of the execute button (the ratio page has no entry, no
\* message and no execute button)
renderCashout(side, stake, aPool, dPool, entry) ==
  IF variant = "ratio"
    THEN [entry |-> entry, value |-> Shown(calcCashout(side, stake, aPool, dPool).cashout),
          msg |-> cashoutMsgEl, disabled |-> execDisabled]
    ELSE LET result == calculateCashout(side, stake, aPool, dPool, entry)
         IN IF ~result.ok
              THEN [entry |-> result.entry, value |-> Dash, msg |-> result.reason,
                    disabled |-> TRUE]
              ELSE [entry |-> result.entry, value |-> Shown(result.exitPayout),
                    msg |-> "Entry odds / Current odds / Reference / Fee / Cap",
                    disabled |-> FALSE]

\* first side of the market: Agree, or Arsenal on the who-scores-first page
IsFirstSide(winningSide) == winningSide \in {"Agree", "Arsenal"}

\* mutant: the two pools are read the wrong way round
calcFinalPayout_swapped(winningSide, stake, aPool, dPool) ==
  LET winningPool == IF IsFirstSide(winningSide) THEN dPool ELSE aPool
      oppositePool == IF IsFirstSide(winningSide) THEN aPool ELSE dPool
      ratio == safeDivide(FromInt(oppositePool), FromInt(winningPool))
      payout == RMul(RMul(FromInt(stake), RAdd(FromInt(1), ratio)), OneMinusFee)
  IN [winningPool |-> winningPool, oppositePool |-> oppositePool,
      payout |-> payout, netProfit |-> RSub(payout, FromInt(stake))]

calcFinalPayout(winningSide, stake, aPool, dPool) ==
  IF winningSide = "No goal"
    THEN [winningPool |-> 0, oppositePool |-> 0, payout |-> FromInt(stake),
          netProfit |-> Zero]
    ELSE LET winningPool == IF IsFirstSide(winningSide) THEN aPool ELSE dPool
             oppositePool == IF IsFirstSide(winningSide) THEN dPool ELSE aPool
             ratio == safeDivide(FromInt(oppositePool), FromInt(winningPool))
             payout == RMul(RMul(FromInt(stake), RAdd(FromInt(1), ratio)), OneMinusFee)
         IN [winningPool |-> winningPool, oppositePool |-> oppositePool,
             payout |-> payout, netProfit |-> RSub(payout, FromInt(stake))]

\* what renderFinalPayout leaves in finalPayoutEl and finalMsgEl for settlement
\* snapshot snap; the ratio page validates nothing and has no message
renderFinalPayout(snap, stake) ==
  LET winningSide == snap.winningSide
      winningPool == IF IsFirstSide(winningSide) THEN snap.agreePool ELSE snap.disagreePool
      result == calcFinalPayout(winningSide, stake, snap.agreePool, snap.disagreePool)
  IN IF variant = "ratio"
       THEN [payout |-> Shown(result.payout), msg |-> finalMsgEl]
     ELSE IF ~(stake > 0)
       THEN [payout |-> Dash, msg |-> MsgFinalStakePositive]
     ELSE IF winningSide # "No goal" /\ stake > winningPool
       THEN [payout |-> Dash, msg |-> MsgFinalStakeExceeds]
     ELSE [payout |-> Shown(result.payout), msg |-> ""]

\* mutant: on the who-scores-first page a team without a goal can be drawn
WinningSides_anyTeam(arsenalGoals, liverpoolGoals) ==
  IF variant = "wsf"
    THEN IF arsenalGoals + liverpoolGoals > 0 THEN {"Arsenal", "Liverpool"}
         ELSE {"No goal"}
    ELSE IF liverpoolGoals > arsenalGoals THEN {"Agree"} ELSE {"Disagree"}

\* winning sides endMatch can draw for a score
WinningSides(arsenalGoals, liverpoolGoals) ==
  IF variant = "wsf"
    THEN IF arsenalGoals + liverpoolGoals > 0
           THEN IF arsenalGoals = 0 THEN {"Liverpool"}
                ELSE IF liverpoolGoals = 0 THEN {"Arsenal"}
                ELSE {"Arsenal", "Liverpool"}
           ELSE {"No goal"}
    ELSE IF liverpoolGoals > arsenalGoals THEN {"Agree"} ELSE {"Disagree"}

\* mutant: the snapshot of the pools is taken with the two sides swapped
Settlement_swappedPools(reason, arsenalGoals, liverpoolGoals, winningSide) ==
  [set |-> TRUE, endReason |-> reason, minuteEnded |-> minute,
   agreePool |-> disagreePool, disagreePool |-> agreePool,
   totalPool |-> agreePool + disagreePool,
   agreeOdds |-> safeDivide(FromInt(agreePool + disagreePool), FromInt(disagreePool)),
   disagreeOdds |-> safeDivide(FromInt(agreePool + disagreePool), FromInt(agreePool)),
   arsenalGoals |-> arsenalGoals, liverpoolGoals |-> liverpoolGoals,
   winningSide |-> winningSide]

\* the settlement snapshot endMatch writes (endedAt, the wall-clock time of
\* the call, and the constant meta / fees fields are left out)
Settlement(reason, arsenalGoals, liverpoolGoals, winningSide) ==
  [set |-> TRUE, endReason |-> reason, minuteEnded |-> minute,
   agreePool |-> agreePool, disagreePool |-> disagreePool,
   totalPool |-> agreePool + disagreePool,
   agreeOdds |-> safeDivide(FromInt(agreePool + disagreePool), FromInt(agreePool)),
   disagreeOdds |-> safeDivide(FromInt(agreePool + disagreePool), FromInt(disagreePool)),
   arsenalGoals |-> arsenalGoals, liverpoolGoals |-> liverpoolGoals,
   winningSide |-> winningSide]

\* --------------------------------------------------- exchange pages: init
ExchangeVariants == {"wsf", "ratio", "mtm"}
CashoutVariants == {"ratio", "mtm"}

OnExchangePage(variants) ==
  variant \in variants /\ UNCHANGED <<variant, lastOp, crashVars>>

\* State after init().  The inputs' initial texts come from the page markup
\* and are floored by init(); the result fields start as placeholders.
InitExVars ==
  /\ minute = 1
  /\ running = FALSE
  /\ ended = FALSE
  /\ matchTimerId = FALSE
  /\ matchIntervals = 0
  /\ cashoutArmed = FALSE
  /\ cashoutEntry = NoEntry
  /\ settlement = NoSettlement
  /\ agreePool \in PoolValues
  /\ disagreePool \in PoolValues
  /\ cashoutSide \in (IF variant = "wsf" THEN {"Agree"} ELSE CashoutSides)
  /\ cashoutStake \in (IF variant = "wsf" THEN {0} ELSE ExStakes)
  /\ cashoutValueEl = Dash
  /\ cashoutMsgEl = ""
  /\ execDisabled = TRUE
  /\ finalPayoutEl = Dash
  /\ finalMsgEl = ""

\* ------------------------------------------------ exchange pages: actions
\* renderMatchState on the mark-to-market page: the execute button is disabled
\* when the match has ended or the cashout panel is not armed
renderMatchState(endedNow) ==
  execDisabled' = IF variant = "mtm" THEN endedNow \/ ~cashoutArmed ELSE execDisabled

stopTimerInterval ==
  /\ matchIntervals' = IF matchTimerId THEN matchIntervals - 1 ELSE matchIntervals
  /\ matchTimerId' = FALSE

\* mutant: startTimer without its "ended" guard
startTimer_noEndedGuard ==
  /\ OnExchangePage(ExchangeVariants)
  /\ IF running
       THEN UNCHANGED exVars
       ELSE /\ matchIntervals < MaxIntervals
            /\ running' = TRUE
            /\ matchTimerId' = TRUE
            /\ matchIntervals' = matchIntervals + 1
            /\ renderMatchState(ended)
            /\ UNCHANGED <<minute, ended, cashoutArmed, cashoutEntry, settlement,
                           agreePool, disagreePool, cashoutSide, cashoutStake,
                           cashoutValueEl, cashoutMsgEl, finalPayoutEl, finalMsgEl>>

startTimer ==
  /\ OnExchangePage(ExchangeVariants)
  /\ IF ended \/ running
       THEN UNCHANGED exVars
       ELSE /\ matchIntervals < MaxIntervals
            /\ running' = TRUE
            /\ matchTimerId' = TRUE
            /\ matchIntervals' = matchIntervals + 1
            /\ renderMatchState(ended)
            /\ UNCHANGED <<minute, ended, cashoutArmed, cashoutEntry, settlement,
                           agreePool, disagreePool, cashoutSide, cashoutStake,
                           cashoutValueEl, cashoutMsgEl, finalPayoutEl, finalMsgEl>>

pauseTimer ==
  /\ OnExchangePage(ExchangeVariants)
  /\ IF ended
       THEN UNCHANGED exVars
       ELSE /\ running' = FALSE
            /\ renderMatchState(FALSE)
            /\ UNCHANGED <<minute, ended, matchTimerId, matchIntervals, cashoutArmed,
                           cashoutEntry, settlement, agreePool, disagreePool,
                           cashoutSide, cashoutStake, cashoutValueEl, cashoutMsgEl,
                           finalPayoutEl, finalMsgEl>>

\* mutant: endMatch without its "already ended" return
endMatch_noGuard(reason) ==
  /\ ended' = TRUE
  /\ running' = FALSE
  /\ stopTimerInterval
  /\ renderMatchState(TRUE)
  /\ \E arsenalGoals \in GoalDraws, liverpoolGoals \in GoalDraws :
       \E winningSide \in WinningSides(arsenalGoals, liverpoolGoals) :
         /\ settlement' = Settlement(reason, arsenalGoals, liverpoolGoals, winningSide)
         /\ finalMsgEl' = IF variant = "wsf"
                            THEN IF winningSide = "No goal" THEN MsgVoid ELSE ""
                            ELSE finalMsgEl
  /\ UNCHANGED <<minute, cashoutArmed, cashoutEntry, agreePool, disagreePool,
                 cashoutSide, cashoutStake, cashoutValueEl, cashoutMsgEl,
                 finalPayoutEl>>

\* mutant: endMatch leaves state.running as it is
endMatch_keepsRunning(reason) ==
  IF ended
    THEN UNCHANGED exVars
    ELSE /\ ended' = TRUE
         /\ stopTimerInterval
         /\ renderMatchState(TRUE)
         /\ \E arsenalGoals \in GoalDraws, liverpoolGoals \in GoalDraws :
              \E winningSide \in WinningSides(arsenalGoals, liverpoolGoals) :
                /\ settlement' = Settlement(reason, arsenalGoals, liverpoolGoals, winningSide)
                /\ finalMsgEl' = IF variant = "wsf"
                                   THEN IF winningSide = "No goal" THEN MsgVoid ELSE ""
                                   ELSE finalMsgEl
         /\ UNCHANGED <<minute, running, cashoutArmed, cashoutEntry, agreePool,
                        disagreePool, cashoutSide, cashoutStake, cashoutValueEl,
                        cashoutMsgEl, finalPayoutEl>>

endMatch(reason) ==
  IF ended
    THEN UNCHANGED exVars
    ELSE /\ ended' = TRUE
         /\ running' = FALSE
         /\ stopTimerInterval
         /\ renderMatchState(TRUE)
         /\ \E arsenalGoals \in GoalDraws, liverpoolGoals \in GoalDraws :
              \E winningSide \in WinningSides(arsenalGoals, liverpoolGoals) :
                /\ settlement' = Settlement(reason, arsenalGoals, liverpoolGoals, winningSide)
                /\ finalMsgEl' = IF variant = "wsf"
                                   THEN IF winningSide = "No goal" THEN MsgVoid ELSE ""
                                   ELSE finalMsgEl
         /\ UNCHANGED <<minute, cashoutArmed, cashoutEntry, agreePool, disagreePool,
                        cashoutSide, cashoutStake, cashoutValueEl, cashoutMsgEl,
                        finalPayoutEl>>

\* mutant: the callback ends the match only above FULL_TIME
MatchTickUpTo_lateEnd(cap) ==
  /\ OnExchangePage(ExchangeVariants)
  /\ matchIntervals > 0
  /\ minute < cap \/ minute >= FULL_TIME
  /\ IF ~running \/ ended
       THEN UNCHANGED exVars
       ELSE IF minute > FULL_TIME
         THEN endMatch("timer")
         ELSE /\ minute' = minute + 1
              /\ renderMatchState(FALSE)
              /\ UNCHANGED <<running, ended, matchTimerId, matchIntervals, cashoutArmed,
                             cashoutEntry, settlement, agreePool, disagreePool,
                             cashoutSide, cashoutStake, cashoutValueEl, cashoutMsgEl,
                             finalPayoutEl, finalMsgEl>>

\* the setInterval callback registered by startTimer, explored while the
\* minute is below cap
MatchTickUpTo(cap) ==
  /\ OnExchangePage(ExchangeVariants)
  /\ matchIntervals > 0
  /\ minute < cap \/ minute >= FULL_TIME
  /\ IF ~running \/ ended
       THEN UNCHANGED exVars
       ELSE IF minute >= FULL_TIME
         THEN endMatch("timer")
         ELSE /\ minute' = minute + 1
              /\ renderMatchState(FALSE)
              /\ UNCHANGED <<running, ended, matchTimerId, matchIntervals, cashoutArmed,
                             cashoutEntry, settlement, agreePool, disagreePool,
                             cashoutSide, cashoutStake, cashoutValueEl, cashoutMsgEl,
                             finalPayoutEl, finalMsgEl>>

MatchTick == MatchTickUpTo(MaxMinute)

\* click handler of finishBtn
finishMatch ==
  /\ OnExchangePage(ExchangeVariants)
  /\ endMatch("manual")

\* renderPoolsAndOdds on pools aPool / dPool: the cashout panel is refreshed
\* once armed (ratio and mtm pages); disabled is the flag of the execute
\* button as the caller has left it
RefreshCashout(side, stake, aPool, dPool, entry, armed, disabled) ==
  IF variant \in CashoutVariants /\ armed /\ ~ended
    THEN LET r == renderCashout(side, stake, aPool, dPool, entry)
         IN /\ cashoutEntry' = r.entry
            /\ cashoutValueEl' = r.value
            /\ cashoutMsgEl' = r.msg
            /\ execDisabled' = r.disabled
    ELSE /\ cashoutEntry' = entry
         /\ execDisabled' = disabled
         /\ UNCHANGED <<cashoutValueEl, cashoutMsgEl>>

\* "input" event of a pool input after the user typed raw into it; the pool
\* inputs are disabled once the match has ended
onPoolInputChange(which, raw) ==
  /\ OnExchangePage(ExchangeVariants)
  /\ IF ended
       THEN UNCHANGED exVars
       ELSE LET aPool == IF which = "agree" THEN FloorSafeNumber(raw) ELSE agreePool
                dPool == IF which = "agree" THEN disagreePool ELSE FloorSafeNumber(raw)
            IN /\ agreePool' = aPool
               /\ disagreePool' = dPool
               /\ RefreshCashout(cashoutSide, cashoutStake, aPool, dPool, cashoutEntry,
                                 cashoutArmed, execDisabled)
               /\ UNCHANGED <<minute, running, ended, matchTimerId, matchIntervals,
                              cashoutArmed, settlement, cashoutSide, cashoutStake,
                              finalPayoutEl, finalMsgEl>>

\* click handler of calcCashoutBtn
calcCashoutClick ==
  /\ OnExchangePage(CashoutVariants)
  /\ IF ended
       THEN UNCHANGED exVars
       ELSE /\ cashoutArmed' = TRUE
            /\ RefreshCashout(cashoutSide, cashoutStake, agreePool, disagreePool,
                              IF variant = "mtm" THEN NoEntry ELSE cashoutEntry, TRUE,
                              execDisabled)
            /\ UNCHANGED <<minute, running, ended, matchTimerId, matchIntervals,
                           settlement, agreePool, disagreePool, cashoutSide,
                           cashoutStake, finalPayoutEl, finalMsgEl>>

\* mutant: a successful execution drops the entry snapshot, as a change of
\* side or stake does
execCashoutClick_dropsEntry ==
  /\ OnExchangePage({"mtm"})
  /\ ~execDisabled
  /\ IF ended
       THEN UNCHANGED exVars
       ELSE LET ex == executeCashout(cashoutSide, cashoutStake, agreePool,
                                     disagreePool, cashoutEntry)
            IN IF ~ex.result.ok
                 THEN /\ cashoutEntry' = ex.result.entry
                      /\ cashoutMsgEl' = ex.result.reason
                      /\ execDisabled' = TRUE
                      /\ UNCHANGED <<minute, running, ended, matchTimerId,
                                     matchIntervals, cashoutArmed, settlement,
                                     agreePool, disagreePool, cashoutSide,
                                     cashoutStake, cashoutValueEl, finalPayoutEl,
                                     finalMsgEl>>
                 ELSE \* applyPools -> renderPoolsAndOdds, then the handler arms
                      \* the panel and calls renderCashout again
                      LET e1 == NoEntry
                      IN /\ agreePool' = ex.nextA
                         /\ disagreePool' = ex.nextB
                         /\ cashoutArmed' = TRUE
                         /\ RefreshCashout(cashoutSide, cashoutStake, ex.nextA,
                                           ex.nextB, e1, TRUE, execDisabled)
                         /\ UNCHANGED <<minute, running, ended, matchTimerId,
                                        matchIntervals, settlement, cashoutSide,
                                        cashoutStake, finalPayoutEl, finalMsgEl>>

\* click handler of execCashoutBtn (mtm page); a disabled button takes no
\* click
execCashoutClick ==
  /\ OnExchangePage({"mtm"})
  /\ ~execDisabled
  /\ IF ended
       THEN UNCHANGED exVars
       ELSE LET ex == executeCashout(cashoutSide, cashoutStake, agreePool,
                                     disagreePool, cashoutEntry)
            IN IF ~ex.result.ok
                 THEN /\ cashoutEntry' = ex.result.entry
                      /\ cashoutMsgEl' = ex.result.reason
                      /\ execDisabled' = TRUE
                      /\ UNCHANGED <<minute, running, ended, matchTimerId,
                                     matchIntervals, cashoutArmed, settlement,
                                     agreePool, disagreePool, cashoutSide,
                                     cashoutStake, cashoutValueEl, finalPayoutEl,
                                     finalMsgEl>>
                 ELSE \* applyPools -> renderPoolsAndOdds, then the handler arms
                      \* the panel and calls renderCashout again
                      LET e1 == IF cashoutArmed
                                  THEN renderCashout(cashoutSide, cashoutStake, ex.nextA,
                                                     ex.nextB, ex.result.entry).entry
                                  ELSE ex.result.entry
                      IN /\ agreePool' = ex.nextA
                         /\ disagreePool' = ex.nextB
                         /\ cashoutArmed' = TRUE
                         /\ RefreshCashout(cashoutSide, cashoutStake, ex.nextA,
                                           ex.nextB, e1, TRUE, execDisabled)
                         /\ UNCHANGED <<minute, running, ended, matchTimerId,
                                        matchIntervals, settlement, cashoutSide,
                                        cashoutStake, finalPayoutEl, finalMsgEl>>

\* "change" event of cashoutSideSel; the select is disabled once ended
cashoutSideChange(side) ==
  /\ OnExchangePage(CashoutVariants)
  /\ ~ended
  /\ side # cashoutSide
  /\ cashoutSide' = side
  /\ RefreshCashout(side, cashoutStake, agreePool, disagreePool,
                    IF variant = "mtm" THEN NoEntry ELSE cashoutEntry, cashoutArmed,
                    IF variant = "mtm" THEN TRUE ELSE execDisabled)
  /\ UNCHANGED <<minute, running, ended, matchTimerId, matchIntervals, cashoutArmed,
                 settlement, agreePool, disagreePool, cashoutStake, finalPayoutEl,
                 finalMsgEl>>

\* "input" event of cashoutStakeInput; the input is disabled once ended
cashoutStakeInput(raw) ==
  /\ OnExchangePage(CashoutVariants)
  /\ ~ended
  /\ FloorSafeNumber(raw) \in ExStakes
  /\ cashoutStake' = FloorSafeNumber(raw)
  /\ RefreshCashout(cashoutSide, FloorSafeNumber(raw), agreePool, disagreePool,
                    IF variant = "mtm" THEN NoEntry ELSE cashoutEntry, cashoutArmed,
                    IF variant = "mtm" THEN TRUE ELSE execDisabled)
  /\ UNCHANGED <<minute, running, ended, matchTimerId, matchIntervals, cashoutArmed,
                 settlement, agreePool, disagreePool, cashoutSide, finalPayoutEl,
                 finalMsgEl>>

\* click handler of calcFinalBtn, with stake = safeNumber(finalStakeInput.value)
calcFinalClick(stake) ==
  /\ OnExchangePage(ExchangeVariants)
  /\ IF ~ended \/ ~settlement.set
       THEN UNCHANGED exVars
       ELSE LET r == renderFinalPayout(settlement, stake)
            IN /\ finalPayoutEl' = r.payout
               /\ finalMsgEl' = r.msg
               /\ UNCHANGED <<minute, running, ended, matchTimerId, matchIntervals,
                              cashoutArmed, cashoutEntry, settlement, agreePool,
                              disagreePool, cashoutSide, cashoutStake, cashoutValueEl,
                              cashoutMsgEl, execDisabled>>

NextWsf ==
  \/ startTimer
  \/ pauseTimer
  \/ MatchTick
  \/ finishMatch
  \/ \E which \in {"agree", "disagree"}, raw \in ExRawInputs : onPoolInputChange(which, raw)
  \/ \E stake \in ExStakes : calcFinalClick(stake)

NextRatio ==
  \/ NextWsf
  \/ calcCashoutClick
  \/ \E side \in CashoutSides : cashoutSideChange(side)
  \/ \E raw \in ExRawInputs : cashoutStakeInput(raw)

NextMtm ==
  \/ NextRatio
  \/ execCashoutClick

InitExchange(variants) ==
  /\ variant \in variants
  /\ lastOp = "init"
  /\ InitCrashVars
  /\ InitExVars

SpecWsf == InitExchange({"wsf"}) /\ [][NextWsf]_vars
SpecRatio == InitExchange({"ratio"}) /\ [][NextRatio]_vars
SpecMtm == InitExchange({"mtm"}) /\ [][NextMtm]_vars
SpecExchange == InitExchange(ExchangeVariants) /\ [][NextMtm]_vars

\* --------------------------------------------------- the match in play
\* An exchange page on which the finish button is not pressed.  Ended is
\* absorbing and the handlers that write the pools or value a cashout do
\* nothing once ended, so these are the states of the page before the end.
NextInPlay ==
  \/ startTimer
  \/ pauseTimer
  \/ MatchTick
  \/ \E which \in {"agree", "disagree"}, raw \in ExRawInputs : onPoolInputChange(which, raw)
  \/ calcCashoutClick
  \/ execCashoutClick
  \/ \E side \in CashoutSides : cashoutSideChange(side)
  \/ \E raw \in ExRawInputs : cashoutStakeInput(raw)

SpecMtmInPlay == InitExchange({"mtm"}) /\ [][NextInPlay]_vars

\* the three exchange pages used without their cashout panel: pool edits,
\* the clock, the end of the match and the final payout
SpecSettlement == InitExchange(ExchangeVariants) /\ [][NextWsf]_vars

\* ------------------------------------------------------------ all pages
\* one of the four pages is loaded; its handlers and callbacks run (an
\* exchange page in play)
InitTradebet == InitCrash \/ InitExchange(ExchangeVariants)

NextPools == NextCrash \/ NextInPlay

SpecPools == InitTradebet /\ [][NextPools]_vars

\* ================================================= crash simulator: claims

\* some active position of the list needs more than liq (hundredths)
Insolvent(active, liq) ==
  \E i \in 1..Len(active) : active[i].stake * active[i].entryMultiplier > liq

\* C1: a flight tick, after advancing every multiplier by one step, moves the
\* round from flying to crashed if and only if some active position then has
\* stake * entryMultiplier > liquidity; otherwise the round stays flying.
C1_TickCrashesIff ==
  [][lastOp' = "flightTick" =>
       /\ phase = "flying"
       /\ phase' = "crashed" <=> Insolvent(Advance(playersActive), liquidity)
       /\ ~Insolvent(Advance(playersActive), liquidity) => phase' = "flying"]_vars

\* C1 witness: a tick has crashed a round that still held liquidity
C1_Witness ==
  /\ lastOp = "flightTick"
  /\ phase = "crashed"
  /\ liquidity > 0
  /\ Len(playersCashedOut) = 2

\* C2 (as claimed): no state between events has phase = flying together with
\* an active position whose stake * entryMultiplier exceeds liquidity.
C2_NoInsolventFlight ==
  phase = "flying" => ~Insolvent(playersActive, liquidity)

\* C3 (as claimed): addStake with a positive floored amount in idle, countdown
\* or flying adds exactly one new active position (that stake, multiplier 0.50)
\* and raises liquidity by the stake; in crashed it changes nothing.
C3_AddStake ==
  [][\A raw \in RawInputs :
       addStake(raw) =>
         LET stake == FloorSafeNumber(raw)
         IN /\ phase = "crashed" =>
                 UNCHANGED <<liquidity, playersActive, playersCashedOut,
                             nextPlayerId, phase>>
            /\ (phase # "crashed" /\ stake > 0) =>
                 /\ playersActive' =
                      <<[id |-> nextPlayerId, stake |-> stake,
                         entryMultiplier |-> START_MULTIPLIER]>> \o playersActive
                 /\ liquidity' = liquidity + 100 * stake
                 /\ UNCHANGED <<playersCashedOut, phase>>]_vars

PhaseEdges ==
  {<<"idle", "countdown">>, <<"countdown", "flying">>, <<"flying", "crashed">>}

\* C6: within a round the phase only moves forward along idle -> countdown ->
\* flying -> crashed; startCountdown has no effect unless the phase is idle;
\* only restartGame returns the phase to an earlier value, and crashed is left
\* only by restartGame.
C6_PhaseForward ==
  [][/\ phase' # phase =>
          \/ <<phase, phase'>> \in PhaseEdges
          \/ lastOp' = "restartGame" /\ phase' = "idle"
     /\ (lastOp' = "startCountdown" /\ phase # "idle") => UNCHANGED crashVars
     /\ (phase = "crashed" /\ phase' # "crashed") => lastOp' = "restartGame"]_vars

\* C6 witness: startCountdown was called on a crashed round and left it crashed
C6_Witness ==
  /\ lastOp = "startCountdown"
  /\ phase = "crashed"
  /\ playersCashedOut # << >>

\* ================================================== exchange pages: claims

\* C4: on the mark-to-market page, while the match is not live (never
\* started, paused or ended), calculateCashout and executeCashout fail with
\* ok = false for every side, stake and stored entry; executeCashout leaves
\* both pools as they are and neither call creates an entry snapshot.
C4_NotLiveCashoutFails ==
  (variant = "mtm" /\ ~(running /\ ~ended)) =>
    \A side \in CashoutSides, stake \in ExStakes, entry \in {NoEntry, cashoutEntry} :
      LET c == calculateCashout(side, stake, agreePool, disagreePool, entry)
          e == executeCashout(side, stake, agreePool, disagreePool, entry)
      IN /\ ~c.ok
         /\ c.reason = ReasonNotLive
         /\ c.entry = entry
         /\ ~e.result.ok
         /\ ~e.applied
         /\ e.result.entry = entry
         /\ e.nextA = agreePool
         /\ e.nextB = disagreePool

\* C4 witness: a paused match with an entry taken while it was live and both
\* pools able to pay; the cashout asked for during the pause was refused
C4_Witness ==
  /\ variant = "mtm"
  /\ ~running /\ ~ended /\ matchIntervals > 0
  /\ cashoutEntry # NoEntry
  /\ cashoutStake > 0
  /\ cashoutStake <= UserPool(cashoutSide, agreePool, disagreePool)
  /\ OppositePool(cashoutSide, agreePool, disagreePool) > 0
  /\ cashoutMsgEl = ReasonNotLive

\* C5 (as claimed): on the ratio page a cashout value is produced only while
\* the match is live; no step taken while the match is not started, paused or
\* ended puts a new cashout value on the page.
C5_ValuationOnlyWhenLive ==
  [][(variant = "ratio" /\ ~(running /\ ~ended)) =>
       (cashoutValueEl' = cashoutValueEl \/ cashoutValueEl' = Dash)]_vars

\* C7: once ended is true, no step makes ended false, makes running true,
\* changes minute or changes the live pools.
C7_EndedAbsorbing ==
  [][ended => /\ ended'
              /\ ~running /\ ~running'
              /\ minute' = minute
              /\ agreePool' = agreePool
              /\ disagreePool' = disagreePool]_vars

\* C7 witness: an ended match on which a timer callback is still registered
\* and a final payout has been calculated
C7_Witness ==
  /\ ended
  /\ matchIntervals > 0
  /\ finalPayoutEl # Dash
  /\ minute > 1

\* C8: endMatch called on an ended match, by the finish button or by the
\* timer callback, leaves the settlement snapshot (pools, odds, score,
\* winning side, endReason, minuteEnded) and the rest of the page as they were.
C8_EndMatchIdempotent ==
  [][ended =>
       \/ settlement' = settlement /\ UNCHANGED exVars
       \/ ~(finishMatch \/ MatchTick \/ \E reason \in {"manual", "timer"} :
                                            endMatch(reason))]_vars

\* C8 witness: a match ended by the finish button, with a winner drawn, on
\* which a timer callback is still registered
C8_Witness ==
  /\ ended
  /\ settlement.set
  /\ settlement.endReason = "manual"
  /\ settlement.arsenalGoals # settlement.liverpoolGoals
  /\ matchIntervals > 0

\* the final payout field after calcFinalBtn is one renderFinalPayout writes
\* from the snapshot
FinalPayoutFromSnapshot(snap, shown) ==
  \E stake \in ExStakes : shown = renderFinalPayout(snap, stake).payout

\* C9: the settlement snapshot exists if and only if the match is ended; it
\* is written only by the step that ends the match and never again; its pools
\* are the live pools of that step; every final payout shown is computed from
\* the snapshot's pools.
C9_SettlementSnapshot ==
  /\ [](settlement.set <=> ended)
  /\ [][/\ settlement' # settlement => (~ended /\ ended')
        /\ (~ended /\ ended') =>
             /\ settlement'.set
             /\ settlement'.agreePool = agreePool
             /\ settlement'.disagreePool = disagreePool
             /\ settlement'.totalPool = agreePool + disagreePool
             /\ settlement'.minuteEnded = minute
        /\ finalPayoutEl' # finalPayoutEl =>
             /\ ended /\ settlement.set
             /\ FinalPayoutFromSnapshot(settlement, finalPayoutEl')]_vars

\* C9 witness: a match ended after the pools had moved away from the odds of
\* the stored entry (an executed cashout or a pool edit), with a snapshot of
\* the pools as they then were and a final payout on the page
C9_Witness ==
  /\ variant = "mtm"
  /\ ended /\ settlement.set
  /\ cashoutEntry # NoEntry
  /\ cashoutEntry.entryOdds # (IF cashoutEntry.side = "Agree" THEN settlement.agreeOdds
                                ELSE settlement.disagreeOdds)
  /\ settlement.agreePool = agreePool
  /\ settlement.disagreePool = disagreePool
  /\ finalPayoutEl # Dash

\* the snapshot's pool of the winning side
SnapshotWinningPool(snap) ==
  IF IsFirstSide(snap.winningSide) THEN snap.agreePool ELSE snap.disagreePool

\* C10 (as claimed): after the match has ended with a winning side, on every
\* page the final payout calculation shows a payout exactly for the stakes
\* with 0 < stake <= winningPool of the snapshot; for any other stake it shows
\* no payout.
C10_FinalPayoutNeedsValidStake ==
  (ended /\ settlement.set /\ settlement.winningSide # "No goal") =>
    \A stake \in 0 .. MaxPool + 1 :
      (renderFinalPayout(settlement, stake).payout # Dash)
        <=> (0 < stake /\ stake <= SnapshotWinningPool(settlement))

\* C11: for a non-void outcome calcFinalPayout takes winningPool and
\* oppositePool by the winning side and returns
\* payout = stake * (1 + oppositePool / winningPool) * (1 - 0.03) and
\* netProfit = payout - stake; winningPool 500, oppositePool 1500, stake 200
\* give 776 and 576; with stake <= winningPool the payout is at most
\* totalPool * 0.97.
C11_FinalPayoutFormula ==
  /\ calcFinalPayout("Agree", 200, 500, 1500).payout = FromInt(776)
  /\ calcFinalPayout("Agree", 200, 500, 1500).netProfit = FromInt(576)
  /\ calcFinalPayout("Liverpool", 200, 1500, 500).payout = FromInt(776)
  /\ (ended /\ settlement.set /\ settlement.winningSide # "No goal") =>
       LET win == SnapshotWinningPool(settlement)
           opp == settlement.totalPool - win
       IN \A stake \in 0 .. MaxPool + 1 :
            LET r == calcFinalPayout(settlement.winningSide, stake,
                                     settlement.agreePool, settlement.disagreePool)
            IN /\ r.winningPool = win
               /\ r.oppositePool = opp
               /\ win > 0 =>
                    r.payout = Rat(stake * (win + opp) * (100 - EXIT_FEE), win * 100)
               /\ r.netProfit = RSub(r.payout, FromInt(stake))
               /\ (win > 0 /\ stake <= win) =>
                    RLe(r.payout, Rat((win + opp) * (100 - EXIT_FEE), 100))

\* C11 witness: an ended match with a winner whose pool is the smaller one,
\* with the payout of a valid stake on the page
C11_Witness ==
  /\ variant = "mtm"
  /\ ended /\ settlement.set
  /\ SnapshotWinningPool(settlement) > 0
  /\ settlement.totalPool - SnapshotWinningPool(settlement) > SnapshotWinningPool(settlement)
  /\ finalPayoutEl # Dash

\* C12: on the who-scores-first page the outcome is "No goal" exactly when
\* both teams have 0 goals and a team with 0 goals is never the winning side;
\* for a void outcome the final payout of every stake > 0 is the stake itself,
\* with net profit 0, whatever the pools are.
C12_VoidRefund ==
  (variant = "wsf" /\ settlement.set) =>
    /\ settlement.winningSide = "No goal"
         <=> (settlement.arsenalGoals = 0 /\ settlement.liverpoolGoals = 0)
    /\ settlement.winningSide = "Arsenal" => settlement.arsenalGoals > 0
    /\ settlement.winningSide = "Liverpool" => settlement.liverpoolGoals > 0
    /\ settlement.winningSide = "No goal" =>
         \A stake \in 1 .. MaxPool + 1 :
           LET r == calcFinalPayout("No goal", stake, settlement.agreePool,
                                    settlement.disagreePool)
               shown == renderFinalPayout(settlement, stake)
           IN /\ r.payout = FromInt(stake)
              /\ r.netProfit = Zero
              /\ shown.payout = <<stake>>
              /\ shown.msg = ""

\* C12 witness: a 0-0 match ended with both pools empty, and the refund of a
\* positive stake on the page
C12_Witness ==
  /\ variant = "wsf"
  /\ ended /\ settlement.set
  /\ settlement.winningSide = "No goal"
  /\ settlement.totalPool = 0
  /\ finalPayoutEl = <<MaxPool>>

\* C13 (as claimed): on the ratio page, for every stake >= 0 and every pair
\* of non-negative pools, the cashout calcCashout returns is at most
\* oppositePool * (1 - 0.03).
C13_RatioCashoutNetOfFee ==
  variant = "ratio" =>
    \A side \in CashoutSides, stake \in ExStakes :
      LET r == calcCashout(side, stake, agreePool, disagreePool)
      IN RLe(r.cashout, RMul(FromInt(r.oppositePool), OneMinusFee))

\* the reference value stake * entryOdds / currentOdds, written out
ReferenceValue(stake, entryOdds, currentOdds) ==
  Rat(stake * entryOdds[1] * currentOdds[2], entryOdds[2] * currentOdds[1])

\* C14: on the mark-to-market page every successful calculateCashout has
\* preFeeExit = min(stake * entryOdds / currentOdds, oppositePool) and
\* exitPayout = preFeeExit * (1 - 0.03), so exitPayout <= oppositePool * 0.97,
\* for the live pools and every entry snapshot the page can hold.
C14_CashoutCapped ==
  variant = "mtm" =>
    \A side \in CashoutSides, stake \in ExStakes, entry \in {NoEntry, cashoutEntry} :
      LET c == calculateCashout(side, stake, agreePool, disagreePool, entry)
          own == UserPool(side, agreePool, disagreePool)
          opp == OppositePool(side, agreePool, disagreePool)
      IN c.ok =>
           LET ref == ReferenceValue(stake, c.entry.entryOdds, Rat(own + opp, own))
           IN /\ c.currentOdds = Rat(own + opp, own)
              /\ c.entryOdds = c.entry.entryOdds
              /\ c.referenceValue = ref
              /\ c.preFeeExit = (IF RLe(ref, FromInt(opp)) THEN ref ELSE FromInt(opp))
              /\ c.exitPayout = Rat(c.preFeeExit[1] * (100 - EXIT_FEE), c.preFeeExit[2] * 100)
              /\ RLe(c.exitPayout, Rat(opp * (100 - EXIT_FEE), 100))

\* C14 witness: a live valuation on the page whose reference value lies above
\* the opposite pool, so that the cap decides the payout
C14_Witness ==
  /\ variant = "mtm"
  /\ running /\ ~ended
  /\ cashoutEntry # NoEntry
  /\ cashoutValueEl # Dash
  /\ LET c == calculateCashout(cashoutSide, cashoutStake, agreePool, disagreePool,
                               cashoutEntry)
     IN c.ok /\ RLt(c.preFeeExit, c.referenceValue)

\* C15: on the mark-to-market page, when the current odds equal the entry
\* odds of the snapshot (always so for a snapshot taken by the same call),
\* a successful valuation has referenceValue = stake, exitPayout at most
\* stake * (1 - 0.03) and a strictly negative profitLoss; an execution on a
\* fresh snapshot pays out less than the stake.
C15_NoFreeProfit ==
  variant = "mtm" =>
    \A side \in CashoutSides, stake \in ExStakes :
      /\ \A entry \in {NoEntry, cashoutEntry} :
           LET c == calculateCashout(side, stake, agreePool, disagreePool, entry)
           IN /\ (c.ok /\ entry = NoEntry) => c.currentOdds = c.entryOdds
              /\ (c.ok /\ c.currentOdds = c.entryOdds) =>
                   /\ c.referenceValue = FromInt(stake)
                   /\ RLe(c.exitPayout, Rat(stake * (100 - EXIT_FEE), 100))
                   /\ RLt(c.profitLoss, Zero)
                   /\ c.profitLoss = RSub(c.exitPayout, FromInt(stake))
      /\ LET e == executeCashout(side, stake, agreePool, disagreePool, NoEntry)
         IN e.result.ok => RLt(e.result.exitPayout, FromInt(stake))

\* C15 witness: a live valuation on the page whose snapshot carries the odds
\* of the present pools and whose payout is not cut by the liquidity cap
C15_Witness ==
  /\ variant = "mtm"
  /\ running /\ ~ended
  /\ cashoutEntry # NoEntry
  /\ cashoutValueEl # Dash
  /\ LET c == calculateCashout(cashoutSide, cashoutStake, agreePool, disagreePool,
                               cashoutEntry)
     IN /\ c.ok
        /\ c.currentOdds = c.entryOdds
        /\ c.preFeeExit = c.referenceValue
        /\ c.exitPayout = Rat(cashoutStake * (100 - EXIT_FEE), 100)

\* C16 (as claimed): on the mark-to-market page, once an entry snapshot is
\* held, a change of the selected side or of the stake leaves the page in a
\* state where executeCashout fails with the stale-entry reason and applies
\* nothing to the pools (stated for a live match and a new side / stake that
\* passes the stake and liquidity checks).
C16_StaleAfterChange ==
  [][(/\ variant = "mtm"
      /\ running /\ ~ended
      /\ cashoutEntry # NoEntry
      /\ cashoutSide' # cashoutSide \/ cashoutStake' # cashoutStake
      /\ cashoutStake' > 0
      /\ cashoutStake' <= UserPool(cashoutSide', agreePool', disagreePool')
      /\ OppositePool(cashoutSide', agreePool', disagreePool') > 0) =>
       LET e == executeCashout(cashoutSide', cashoutStake', agreePool', disagreePool',
                               cashoutEntry')
       IN /\ ~e.result.ok
          /\ e.result.reason = ReasonStaleEntry
          /\ ~e.applied]_vars

\* C17 (as claimed): on the mark-to-market page a successful executeCashout
\* lowers the user's side pool by exactly the stake and the opposite pool by
\* exactly the exitPayout it returns, so the two pools together lose
\* stake + exitPayout.
C17_ExecuteConserves ==
  [][LET e == executeCashout(cashoutSide, cashoutStake, agreePool, disagreePool,
                             cashoutEntry)
     IN (execCashoutClick /\ ~ended /\ e.applied) =>
          /\ UserPool(cashoutSide, agreePool', disagreePool')
               = UserPool(cashoutSide, agreePool, disagreePool) - cashoutStake
          /\ FromInt(OppositePool(cashoutSide, agreePool', disagreePool'))
               = RSub(FromInt(OppositePool(cashoutSide, agreePool, disagreePool)),
                      e.result.exitPayout)
          /\ FromInt(agreePool' + disagreePool')
               = RSub(FromInt(agreePool + disagreePool),
                      RAdd(FromInt(cashoutStake), e.result.exitPayout))]_vars

\* entry snapshots executeCashout can be handed: none, the one the page
\* holds, and snapshots of any side and stake
EntrySnapshots ==
  {NoEntry, cashoutEntry} \cup
  {[side |-> sd, stake |-> st, entryOdds |-> FromInt(2)] :
     sd \in CashoutSides, st \in ExStakes}

\* C18: on the mark-to-market page executeCashout is all-or-nothing: whenever
\* it returns a failure, whatever the reason, both pools are what they were;
\* pools change only together with a successful result.
C18_ExecuteAllOrNothing ==
  variant = "mtm" =>
    \A side \in CashoutSides, stake \in ExStakes, entry \in EntrySnapshots :
      LET e == executeCashout(side, stake, agreePool, disagreePool, entry)
      IN /\ e.applied <=> e.result.ok
         /\ ~e.result.ok => (e.nextA = agreePool /\ e.nextB = disagreePool)

\* C18 witness: a match with money on both sides, valued while live and then
\* paused, on which Execute Cashout was refused because the match is not
\* live: the valuation is still shown and the button is disabled again
C18_Witness ==
  /\ variant = "mtm"
  /\ ~running /\ ~ended
  /\ cashoutArmed /\ execDisabled
  /\ agreePool > 0 /\ disagreePool > 0
  /\ cashoutValueEl # Dash
  /\ cashoutMsgEl = ReasonNotLive

\* C19: in every reachable state of every page the monetary pools are
\* non-negative: the two pools of an exchange page after any pool edits and
\* executed cashouts, and the liquidity and the reserve of the crash
\* simulator after any stakes, cashouts, resets, crashes and restarts.
C19_NonNegative ==
  /\ agreePool >= 0
  /\ disagreePool >= 0
  /\ liquidity >= 0
  /\ reserve >= 0

\* C19 witness: a live mark-to-market match, entered at odds 2 with money on
\* both sides, whose pools executed cashouts or pool edits have since emptied
C19_Witness ==
  /\ variant = "mtm"
  /\ running /\ ~ended
  /\ cashoutEntry # NoEntry
  /\ cashoutEntry.entryOdds = FromInt(2)
  /\ agreePool = 0 /\ disagreePool = 0
  /\ cashoutMsgEl = ReasonStakeExceedsPool

\* C20 (as claimed): on the exchange pages at most one interval created by
\* startTimer is registered at any time, and none is registered once the
\* match has ended.
C20_NoTimerLeft ==
  /\ matchIntervals <= 1
  /\ ended => matchIntervals = 0

\* ========================================= crash simulator: further claims

\* C21 (as claimed): player ids are handed out in strictly increasing order
\* and never twice: a new position takes the id nextPlayerId, the counter
\* then moves up by one, and no step (crash and restartGame included) moves
\* the counter of the next id to hand out back down.
C21_IdsNeverReused ==
  [][/\ nextPlayerId' >= nextPlayerId
     /\ \A raw \in RawInputs :
          (addStake(raw) /\ phase # "crashed" /\ FloorSafeNumber(raw) > 0) =>
            nextPlayerId' = nextPlayerId + 1]_vars

\* C22: restartGame starts the new round with liquidity = reserve and leaves
\* the reserve alone; the reserve is written only by a crash (to the
\* liquidity left at that moment) and by the liquidity reset (to 0); the
\* crash of a flight tick leaves liquidity as it was, and while the round is
\* crashed liquidity and reserve agree.
C22_ReserveCarriedOver ==
  /\ [](phase = "crashed" => reserve = liquidity)
  /\ [][/\ lastOp' = "restartGame" => (liquidity' = reserve /\ reserve' = reserve)
        /\ reserve' # reserve =>
             \/ phase # "crashed" /\ phase' = "crashed" /\ reserve' = liquidity'
             \/ lastOp' = "resetLiquidity" /\ reserve' = 0
        /\ (phase # "crashed" /\ phase' = "crashed") =>
             /\ reserve' = liquidity'
             /\ lastOp' = "flightTick" => liquidity' = liquidity
             /\ lastOp' = "resetLiquidity" => liquidity' = 0]_vars

\* C22 witness: a round restarted after a crash that left liquidity behind;
\* the new round starts with that amount
C22_Witness ==
  /\ lastOp = "restartGame"
  /\ phase = "idle"
  /\ liquidity > 0
  /\ liquidity = reserve

\* the active positions other than the one with this id, in their order
Others(active, playerId) == SelectSeq(active, LAMBDA q : q.id # playerId)

\* C23: cashOutPlayer(id) changes state only when the phase is flying and id
\* names an active position; when also stake * entryMultiplier <= liquidity
\* it lowers liquidity by exactly that amount, removes the position from the
\* active list and adds one settled record with status cashed_out and
\* finalPayout equal to the amount, and then crashes the round at once if a
\* remaining active position needs more than the remaining liquidity.
C23_CashOut ==
  [][lastOp' = "cashOutPlayer" =>
       IF phase # "flying" THEN UNCHANGED crashVars
       ELSE \A playerId \in 1..MaxPlayers :
         LET idx == findIndex(playersActive, playerId)
         IN \/ IF idx = 0 THEN UNCHANGED crashVars
               ELSE LET p == playersActive[idx]
                        payout == p.stake * p.entryMultiplier
                        rest == Others(playersActive, playerId)
                        crashes == Insolvent(rest, liquidity - payout)
                        settled == Len(playersCashedOut') - Len(playersCashedOut)
                    IN payout <= liquidity =>
                         /\ liquidity' = liquidity - payout
                         /\ \A i \in 1..Len(playersActive') :
                              playersActive'[i].id # playerId
                         /\ settled = 1 + (IF crashes THEN Len(rest) ELSE 0)
                         /\ playersCashedOut'[settled] =
                              [id |-> playerId, stake |-> p.stake,
                               entryMultiplier |-> p.entryMultiplier,
                               status |-> "cashed_out",
                               cashoutMultiplier |-> p.entryMultiplier,
                               finalPayout |-> payout]
                         /\ SubSeq(playersCashedOut', settled + 1, Len(playersCashedOut'))
                              = playersCashedOut
                         /\ \A i \in 1..(settled - 1) :
                              playersCashedOut'[i].status = "lost"
                         /\ phase' = (IF crashes THEN "crashed" ELSE "flying")
                         /\ playersActive' = (IF crashes THEN << >> ELSE rest)
            \/ ~cashOutPlayer(playerId)]_vars

\* C23 witness: a cashout that was paid in full and left too little for the
\* other position, so that the round crashed in the same call
C23_Witness ==
  /\ lastOp = "cashOutPlayer"
  /\ phase = "crashed"
  /\ Len(playersCashedOut) = 2
  /\ playersCashedOut[1].status = "lost"
  /\ playersCashedOut[2].status = "cashed_out"
  /\ playersCashedOut[2].finalPayout > 0
  /\ liquidity > 0

\* C26: a countdown starts at COUNTDOWN_SECONDS with its one timer
\* registered; unless restartGame is invoked, each countdown tick lowers the
\* value by one and nothing else changes it or the phase, and the tick that
\* reaches 0 - the COUNTDOWN_SECONDS-th - makes the phase flying, cancels the
\* countdown timer and starts the flight timer; flight begins in no other
\* way, and the countdown value is never below 0.
C26_CountdownToFlight ==
  /\ [](countdown >= 0)
  /\ [](phase = "countdown" =>
          /\ countdown \in 1..COUNTDOWN_SECONDS
          /\ countdownId /\ countdownIntervals = 1
          /\ ~timerId /\ flightIntervals = 0)
  /\ [][/\ (phase = "idle" /\ phase' = "countdown") => countdown' = COUNTDOWN_SECONDS
        /\ phase = "countdown" =>
             \/ lastOp' = "restartGame"
             \/ /\ lastOp' = "countdownTick"
                /\ countdown' = countdown - 1
                /\ phase' = (IF countdown' = 0 THEN "flying" ELSE "countdown")
             \/ /\ lastOp' # "countdownTick"
                /\ countdown' = countdown
                /\ phase' = "countdown"
        /\ (phase # "flying" /\ phase' = "flying") =>
             /\ phase = "countdown"
             /\ lastOp' = "countdownTick"
             /\ countdown' = 0
             /\ ~countdownId' /\ countdownIntervals' = 0
             /\ timerId' /\ flightIntervals' = 1]_vars

\* C26 witness: the last countdown tick has just begun a flight with two
\* positions staked beforehand
C26_Witness ==
  /\ lastOp = "countdownTick"
  /\ phase = "flying"
  /\ countdown = 0
  /\ timerId /\ ~countdownId
  /\ Len(playersActive) = 2

\* the position or settled record of this id after a step
After(playerId) ==
  LET all == playersActive' \o playersCashedOut'
  IN all[CHOOSE i \in 1..Len(all) : all[i].id = playerId]

\* C27: a flight tick raises the round multiplier by exactly 0.02 and the
\* entryMultiplier of every active position by exactly 0.02 (also of the
\* positions the tick settles as lost); no other step changes the multiplier
\* of a position, and a new position starts at 0.50, so the positions staked
\* in idle or countdown are at 0.50 when the flight begins; startCountdown
\* and the start of the flight set the round multiplier to 0.50 and leave
\* the positions alone.
C27_MultiplierSteps ==
  /\ [](phase \in {"idle", "countdown"} =>
          \A i \in 1..Len(playersActive) :
            playersActive[i].entryMultiplier = START_MULTIPLIER)
  /\ [][/\ lastOp' = "flightTick" =>
             /\ multiplier' = multiplier + MULTIPLIER_STEP
             /\ Len(playersActive' \o playersCashedOut')
                  = Len(playersActive \o playersCashedOut)
             /\ \A i \in 1..Len(playersActive) :
                  After(playersActive[i].id).entryMultiplier
                    = playersActive[i].entryMultiplier + MULTIPLIER_STEP
        /\ lastOp' # "flightTick" =>
             \A j \in 1..Len(playersActive') :
               LET q == playersActive'[j]
               IN IF \E i \in 1..Len(playersActive) : playersActive[i].id = q.id
                    THEN \E i \in 1..Len(playersActive) : playersActive[i] = q
                    ELSE q.entryMultiplier = START_MULTIPLIER
        /\ ((phase = "idle" /\ phase' = "countdown")
              \/ (phase # "flying" /\ phase' = "flying")) =>
             /\ multiplier' = START_MULTIPLIER
             /\ playersActive' = playersActive
             /\ playersCashedOut' = playersCashedOut]_vars

\* C27 witness: after a tick of a flight, a position staked before the flight
\* stands one step above a position that joined during the flight
C27_Witness ==
  /\ lastOp = "flightTick"
  /\ phase = "flying"
  /\ Len(playersActive) = 2
  /\ playersActive[1].entryMultiplier = START_MULTIPLIER + MULTIPLIER_STEP
  /\ playersActive[2].entryMultiplier = START_MULTIPLIER + 2 * MULTIPLIER_STEP
  /\ multiplier = START_MULTIPLIER + 2 * MULTIPLIER_STEP

\* C28: the step that crashes the round settles every position that was
\* active (a position staked or advanced by that very step included, a
\* position the step has paid out excluded) with status lost and finalPayout
\* 0, on top of the records already settled, and empties the active list; in
\* every state with phase = crashed there is no active position, and
\* addStake adds none.
C28_CrashSettlesAll ==
  /\ [](phase = "crashed" => playersActive = << >>)
  /\ [][(phase # "crashed" /\ phase' = "crashed") =>
          LET settled == Len(playersCashedOut') - Len(playersCashedOut)
          IN /\ playersActive' = << >>
             /\ SubSeq(playersCashedOut', settled + 1, Len(playersCashedOut'))
                  = playersCashedOut
             /\ \A i \in 1..Len(playersActive) :
                  \E j \in 1..settled :
                    LET r == playersCashedOut'[j]
                    IN /\ r.id = playersActive[i].id
                       /\ r.stake = playersActive[i].stake
                       /\ \/ r.status = "lost" /\ r.finalPayout = 0
                          \/ /\ lastOp' = "cashOutPlayer"
                             /\ r.status = "cashed_out"
                             /\ r.finalPayout <= liquidity
             /\ \A j \in 1..settled :
                  LET r == playersCashedOut'[j]
                  IN /\ r.status = "lost" => r.finalPayout = 0
                     /\ r.status = "lost" \/ (lastOp' = "cashOutPlayer" /\ j = settled)
             /\ settled = Len(playersActive) + (IF lastOp' = "addStake" THEN 1 ELSE 0)]_vars

\* C28 witness: a crashed round in which two positions were lost at once
C28_Witness ==
  /\ phase = "crashed"
  /\ playersActive = << >>
  /\ Len(playersCashedOut) = 2
  /\ \A j \in 1..2 : /\ playersCashedOut[j].status = "lost"
                      /\ playersCashedOut[j].finalPayout = 0
  /\ playersCashedOut[1].stake # playersCashedOut[2].stake

\* ------------------------------------------- a flight with one position
\* The crash simulator from liquidity 0 with a single stake, added before or
\* during the flight, and no other user operation than the start button: the
\* countdown and the flight ticks run on their own.
NextSingleStake ==
  \/ \E raw \in RawInputs : nextPlayerId = 1 /\ addStake(raw)
  \/ startCountdown
  \/ CountdownTick
  \/ FlightTickUpTo(MaxFlightMultiplier)

SpecSingleStake == InitCrash /\ [][NextSingleStake]_vars

\* C29: from liquidity 0 with a single position of stake S > 0 (liquidity is
\* then S) and no other user operation, a flight tick crashes the round if
\* and only if it takes the position's multiplier above 1.00: the position
\* flies on at every multiplier up to 1.00 (so at 0.56, its 3rd tick) and is
\* lost at 1.02, on its 26th tick.
C29_SingleStakeCrashesAbovePar ==
  /\ [](playersActive # << >> =>
          /\ Len(playersActive) = 1
          /\ liquidity = 100 * playersActive[1].stake
          /\ playersActive[1].entryMultiplier <= 100)
  /\ [](phase = "crashed" =>
          /\ Len(playersCashedOut) = 1
          /\ playersCashedOut[1].status = "lost"
          /\ playersCashedOut[1].entryMultiplier
               = START_MULTIPLIER + 26 * MULTIPLIER_STEP
          /\ liquidity = 100 * playersCashedOut[1].stake)
  /\ [][(lastOp' = "flightTick" /\ playersActive # << >>) =>
          LET m == playersActive[1].entryMultiplier + MULTIPLIER_STEP
          IN /\ phase' = "crashed" <=> m > 100
             /\ m <= 100 => (phase' = "flying" /\ playersActive'[1].entryMultiplier = m)
             /\ m = START_MULTIPLIER + 3 * MULTIPLIER_STEP => phase' = "flying"]_vars

\* C29 witness: a position staked before the flight, lost on the 26th tick of
\* the flight at 1.02 with the liquidity it had brought still in the pool
C29_Witness ==
  /\ phase = "crashed"
  /\ lastOp = "flightTick"
  /\ multiplier = 102
  /\ Len(playersCashedOut) = 1
  /\ playersCashedOut[1].entryMultiplier = 102
  /\ playersCashedOut[1].stake > 1
  /\ liquidity = 100 * playersCashedOut[1].stake

\* ========================================== exchange pages: further claims

\* C24 (as claimed): the match phase moves forward only, not started ->
\* live -> ended: a live match (running, not ended) stays live or becomes
\* ended, and never goes back to a state that is neither live nor ended.
C24_LiveUntilEnded ==
  [][(running /\ ~ended) => ((running' /\ ~ended') \/ ended')]_vars

\* C24 (amended): a live match stays live or becomes ended, except that
\* pauseTimer takes it to a paused state (not running, not ended, the minute
\* kept); only startTimer makes a match that is not running live, and only
\* while it is not ended; an ended match stays ended and is never running.
C24_LiveUntilEndedOrPaused ==
  [][/\ ended => (ended' /\ ~running')
     /\ (running /\ ~ended) =>
          \/ running' /\ ~ended'
          \/ ended' /\ ~running'
          \/ pauseTimer /\ ~running' /\ ~ended' /\ minute' = minute
     /\ (~running /\ running') => (startTimer /\ ~ended /\ ~ended')
     /\ minute' >= minute]_vars

\* C24 witness: a match that has been live (the clock has advanced and its
\* interval is registered) and is now paused, neither live nor ended
C24_Witness ==
  /\ ~running /\ ~ended
  /\ minute > 1
  /\ matchIntervals = 1
  /\ ~settlement.set

\* C25 (as claimed): on the mark-to-market page the entry snapshot taken at
\* the first successful valuation of (side, stake) is kept: every later
\* valuation with the same side and stake (whatever happened to the pools)
\* finds the same snapshot, with the same entryOdds, and recomputes
\* currentOdds = total / ownPool alone.
C25_EntryRetained ==
  [][(/\ variant = "mtm"
      /\ cashoutEntry # NoEntry
      /\ cashoutEntry.side = cashoutSide /\ cashoutEntry.stake = cashoutStake
      /\ cashoutSide' = cashoutSide /\ cashoutStake' = cashoutStake
      /\ cashoutEntry' # NoEntry) =>
       cashoutEntry'.entryOdds = cashoutEntry.entryOdds]_vars

\* the odds the claim gives a side: total / sidePool, in lowest terms, for a
\* pool above 0, the sentinel 0 otherwise
OddsAsClaimed(odds, totalPool, sidePool) ==
  IF sidePool > 0
    THEN /\ odds[2] > 0
         /\ odds[1] * sidePool = totalPool * odds[2]
         /\ odds = Rat(totalPool, sidePool)
         /\ RLe(FromInt(1), odds)
    ELSE odds = Zero

\* C30: on every exchange page, for the pools the page holds, the implied
\* odds of a side are total / sidePool when sidePool > 0 (odds * sidePool =
\* total, odds >= 1; pools 100 / 300 give 4 and 4/3) and the sentinel 0 when
\* sidePool <= 0; the odds stored in the settlement snapshot obey the same
\* rule on the snapshot's pools, so no division by zero reaches the state.
C30_ImpliedOdds ==
  /\ getImpliedOdds(400, 100) = FromInt(4)
  /\ getImpliedOdds(400, 300) = <<4, 3>>
  /\ variant \in ExchangeVariants =>
       /\ OddsAsClaimed(getImpliedOdds(agreePool + disagreePool, agreePool),
                        agreePool + disagreePool, agreePool)
       /\ OddsAsClaimed(getImpliedOdds(agreePool + disagreePool, disagreePool),
                        agreePool + disagreePool, disagreePool)
       /\ settlement.set =>
            /\ OddsAsClaimed(settlement.agreeOdds, settlement.totalPool,
                             settlement.agreePool)
            /\ OddsAsClaimed(settlement.disagreeOdds, settlement.totalPool,
                             settlement.disagreePool)

\* C30 witness: a match ended with all the money on the second side: the
\* snapshot holds the sentinel for the empty side and odds 1 for the other
C30_Witness ==
  /\ ended /\ settlement.set
  /\ settlement.agreePool = 0
  /\ settlement.disagreePool > 0
  /\ settlement.agreeOdds = Zero
  /\ settlement.disagreeOdds = FromInt(1)

\* ------------------------------------------------------------------ C31
\* raw amounts that are not positive after coercion and flooring: text that
\* is not a number, negative numbers, zero and fractions below 1
InvalidStakes == {raw \in RawInputs : raw.nan \/ raw.half < 2}

\* C31: on the crash simulator an addStake whose amount is not positive after
\* coercion and flooring (non-numeric, negative, zero or a fraction below 1)
\* is rejected in every phase: liquidity, the active and the settled
\* positions, nextPlayerId and the phase are what they were.
C31_InvalidStakeRejected ==
  [][lastOp' = "addStake" =>
       \/ UNCHANGED <<liquidity, playersActive, playersCashedOut, nextPlayerId, phase>>
       \/ \A raw \in InvalidStakes : ~addStake(raw)]_vars

\* C31 witness: a flight nobody has joined, during which an addStake was
\* made and left the book empty
C31_Witness ==
  /\ lastOp = "addStake"
  /\ phase = "flying"
  /\ playersActive = << >> /\ playersCashedOut = << >>
  /\ nextPlayerId = 1

\* ------------------------------------------------------------------ C32
\* The match clock of the three exchange pages played to full time: the
\* start, pause and finish buttons and the timer callback, on a page whose
\* pools and cashout inputs keep their initial values.
InitClock ==
  /\ InitExchange(ExchangeVariants)
  /\ agreePool = 1 /\ disagreePool = 1
  /\ cashoutSide = "Agree" /\ cashoutStake = 0

NextClock ==
  \/ startTimer
  \/ pauseTimer
  \/ MatchTickUpTo(FULL_TIME)
  \/ finishMatch

SpecClock == InitClock /\ [][NextClock]_vars

\* C32: on the exchange pages the minute stays within 1 .. 90 and never
\* decreases; it advances, by one, only in a timer tick while the match is
\* running and not ended (never while paused); a match ended by the timer
\* records minuteEnded = 90, whatever the sequence of start, pause, resume
\* and ticks before.
C32_MatchClock ==
  /\ [](1 <= minute /\ minute <= FULL_TIME)
  /\ [](settlement.set /\ settlement.endReason = "timer"
          => settlement.minuteEnded = FULL_TIME)
  /\ [][minute' # minute =>
          /\ minute' = minute + 1
          /\ running /\ ~ended /\ matchIntervals > 0
          /\ MatchTickUpTo(FULL_TIME)]_vars

\* C32 witness: a match the timer ended at full time, after a pause and a
\* second start had left two intervals ticking
C32_Witness ==
  /\ ended
  /\ settlement.set /\ settlement.endReason = "timer"
  /\ minute = FULL_TIME
  /\ matchIntervals = 1 /\ ~matchTimerId

\* ------------------------------------------------------------------ C33
\* C33: on the crash simulator the countdown timer is pending exactly in the
\* countdown phase and the flight timer exactly in the flying phase, one
\* registration each and never both; in the idle and crashed phases no timer
\* is pending, so no tick can run after a crash or a restart.
C33_TimersMatchPhase ==
  variant = "crash" =>
    /\ countdownId <=> phase = "countdown"
    /\ timerId <=> phase = "flying"
    /\ countdownIntervals = (IF phase = "countdown" THEN 1 ELSE 0)
    /\ flightIntervals = (IF phase = "flying" THEN 1 ELSE 0)
    /\ ~(countdownId /\ timerId)

\* C33 witness: a round restarted in the middle of its countdown
C33_Witness ==
  /\ lastOp = "restartGame"
  /\ phase = "idle"
  /\ countdown < COUNTDOWN_SECONDS
  /\ countdownIntervals = 0 /\ flightIntervals = 0

\* ------------------------------------------------------------------ C34
\* ids of the records of a list
Ids(records) == {records[i].id : i \in 1..Len(records)}

\* old is what remains of new after dropping its first records
IsSuffix(old, new) ==
  /\ Len(old) <= Len(new)
  /\ old = SubSeq(new, Len(new) - Len(old) + 1, Len(new))

\* C34: on the crash simulator, within a round, every position that was added
\* is in exactly one of the active and the settled lists, under its own id:
\* the ids of the two lists are the numbers 1 .. nextPlayerId - 1, once each;
\* until restartGame a settled record is never modified, never removed and
\* never active again.
C34_PositionsAccounted ==
  /\ [](variant = "crash" =>
          /\ Len(playersActive) + Len(playersCashedOut) = nextPlayerId - 1
          /\ Ids(playersActive) \cup Ids(playersCashedOut) = 1..(nextPlayerId - 1))
  /\ [][lastOp' # "restartGame" =>
          /\ playersCashedOut' = playersCashedOut
               \/ IsSuffix(playersCashedOut, playersCashedOut')
          /\ playersActive' = << >>
               \/ Ids(playersCashedOut) \cap Ids(playersActive') = {}]_vars

\* C34 witness: a crashed round of two positions, the second of which cashed
\* out before the crash took the first
C34_Witness ==
  /\ phase = "crashed"
  /\ playersActive = << >>
  /\ Len(playersCashedOut) = 2
  /\ playersCashedOut[1].status = "lost" /\ playersCashedOut[1].id = 1
  /\ playersCashedOut[2].status = "cashed_out" /\ playersCashedOut[2].id = 2

\* ------------------------------------------------------------------ C35
\* The crash simulator on which the liquidity is never reset; the flight of
\* a round with a single position goes on until the multiplier has passed
\* 1.00x, where that position crashes.
NextNoReset ==
  \/ startCountdown
  \/ CountdownTick
  \/ FlightTick
  \/ nextPlayerId = 2 /\ FlightTickUpTo(MaxFlightMultiplier)
  \/ \E raw \in RawInputs : addStake(raw)
  \/ \E playerId \in 1..MaxPlayers : cashOutPlayer(playerId)
  \/ restartGame

SpecNoReset == InitCrash /\ [][NextNoReset]_vars

RECURSIVE SumStakes(_)
\* sum of the stakes of a list of positions or records, in hundredths
SumStakes(records) ==
  IF records = << >> THEN 0 ELSE 100 * Head(records).stake + SumStakes(Tail(records))

RECURSIVE SumFinalPayout(_)
\* sum of finalPayout over the records of a list (0 for a lost record)
SumFinalPayout(records) ==
  IF records = << >> THEN 0 ELSE Head(records).finalPayout + SumFinalPayout(Tail(records))

\* liquidity a round that started with roundStart must hold, given its lists
Accounted(roundStart, active, settled) ==
  roundStart + SumStakes(active) + SumStakes(settled) - SumFinalPayout(settled)

\* C35: on the crash simulator, in a round in which the liquidity has not
\* been reset, liquidity = liquidity at the round's start + the stakes added
\* in the round - the finalPayout of the cashed_out records; a tick and a
\* crash do not change the liquidity, and the stakes of lost positions stay
\* in it.  Until a crash the reserve holds the liquidity the round started
\* with; after it the liquidity does not move until restartGame.
C35_LiquidityAccounting ==
  /\ [](phase # "crashed" =>
          liquidity = Accounted(reserve, playersActive, playersCashedOut))
  /\ [][lastOp' = "flightTick" => liquidity' = liquidity]_vars
  /\ [][phase # "crashed" /\ phase' = "crashed" =>
          liquidity' = Accounted(reserve, playersActive', playersCashedOut')]_vars
  /\ [][phase = "crashed" /\ lastOp' # "restartGame" =>
          UNCHANGED <<liquidity, playersActive, playersCashedOut>>]_vars

\* C35 witness: a flight of two positions in a round that a restart started
\* with the liquidity an earlier crash had left; one of the two has cashed out
C35_Witness ==
  /\ phase = "flying"
  /\ reserve > 0
  /\ Len(playersActive) = 1
  /\ Len(playersCashedOut) = 1
  /\ playersCashedOut[1].status = "cashed_out"
  /\ playersCashedOut[1].finalPayout > 0
  /\ liquidity = reserve + SumStakes(playersActive) + SumStakes(playersCashedOut)
                   - playersCashedOut[1].finalPayout

\* ------------------------------------------------------------------ C36
\* The flight tick of a round left to itself: with a position in the air the
\* multiplier is followed as far as the code takes it, an empty flight up to
\* MaxFlightMultiplier.
FlightTickToCrash ==
  FlightTickUpTo(IF playersActive = << >>
                   THEN MaxFlightMultiplier
                   ELSE multiplier + MULTIPLIER_STEP)

\* Rounds without cash-out, reset or restart: the first position is taken at
\* any time, further ones before take-off.
NextFairFlight ==
  \/ startCountdown
  \/ CountdownTick
  \/ FlightTickToCrash
  \/ \E raw \in RawInputs : (phase # "flying" \/ nextPlayerId = 1) /\ addStake(raw)

\* setInterval keeps calling the flight tick while it is registered
SpecFairFlight ==
  InitCrash /\ [][NextFairFlight]_vars /\ WF_vars(FlightTickToCrash)

\* C36: on the crash simulator a flying round with at least one active
\* position that is left to its ticks (no cash-out, reset or restart)
\* eventually crashes, and a flying round with no active position is never
\* crashed by a tick.
C36_FlightEndsInCrash ==
  /\ (phase = "flying" /\ playersActive # << >>) ~> (phase = "crashed")
  /\ [][phase = "flying" /\ playersActive = << >> /\ lastOp' = "flightTick"
          => phase' = "flying"]_vars

\* C36 witness: a round of two positions crashed by a tick at twice the
\* stake of each, well after the multiplier passed 1.00x
C36_Witness ==
  /\ phase = "crashed"
  /\ lastOp = "flightTick"
  /\ Len(playersCashedOut) = 2
  /\ multiplier > 2 * 100

\* ------------------------------------------------------------------ C37
\* C37: on the mark-to-market page an Execute Cashout made while no entry
\* snapshot exists, on a live match with money on both sides and a positive
\* stake the user's side covers, does not fail: the call takes the snapshot
\* at the current odds and executes at once with referenceValue = stake,
\* paying min(stake, oppositePool) * 0.97; the user's pool falls by the
\* stake and the opposite pool by the payout (as applyPools stores it).
C37_ExecuteWithoutSnapshot ==
  [][LET own == UserPool(cashoutSide, agreePool, disagreePool)
         opp == OppositePool(cashoutSide, agreePool, disagreePool)
         paid == RMul(RMin(FromInt(cashoutStake), FromInt(opp)), OneMinusFee)
         ex == executeCashout(cashoutSide, cashoutStake, agreePool, disagreePool, NoEntry)
     IN (/\ variant = "mtm"
         /\ cashoutEntry = NoEntry /\ ~execDisabled
         /\ isLiveMatch
         /\ cashoutStake > 0 /\ cashoutStake <= own /\ opp > 0
         /\ execCashoutClick)
        => /\ ex.result.ok /\ ex.applied
           /\ ex.result.referenceValue = FromInt(cashoutStake)
           /\ ex.result.exitPayout = paid
           /\ UserPool(cashoutSide, agreePool', disagreePool') = own - cashoutStake
           /\ OppositePool(cashoutSide, agreePool', disagreePool')
                = ApplyPool(RSub(FromInt(opp), paid))
           /\ cashoutEntry' =
                [side |-> cashoutSide, stake |-> cashoutStake,
                 entryOdds |-> getImpliedOdds(agreePool + disagreePool, own)]]_vars

\* C37 witness: a match started after a Calculate Cashout had failed because
\* it was not live: the panel is armed, the execute button is enabled by
\* renderMatchState, no entry snapshot exists and the request is valid
C37_Witness ==
  /\ variant = "mtm"
  /\ running /\ ~ended
  /\ cashoutArmed /\ ~execDisabled
  /\ cashoutEntry = NoEntry
  /\ cashoutValueEl = Dash /\ cashoutMsgEl = ReasonNotLive
  /\ cashoutStake > 0
  /\ cashoutStake <= UserPool(cashoutSide, agreePool, disagreePool)
  /\ OppositePool(cashoutSide, agreePool, disagreePool) > 0

\* ------------------------------------------------------------------ C38
\* C38: on the mark-to-market page a successful Execute Cashout on an
\* existing entry snapshot changes the two pools and leaves the snapshot
\* (side, stake, entryOdds), cashoutArmed, minute, running and ended as they
\* were; while the stake does not exceed what is left on the user's side and
\* both pools are still positive, the execute button stays enabled and the
\* same side and stake execute again, priced with the original entryOdds
\* against the odds of the reduced pools.
C38_ExecuteKeepsEntry ==
  [][(/\ variant = "mtm"
      /\ cashoutEntry # NoEntry /\ ~execDisabled
      /\ executeCashout(cashoutSide, cashoutStake, agreePool, disagreePool,
                        cashoutEntry).result.ok
      /\ execCashoutClick)
     => /\ UNCHANGED <<cashoutEntry, cashoutArmed, minute, running, ended,
                       cashoutSide, cashoutStake>>
        /\ <<agreePool', disagreePool'>> # <<agreePool, disagreePool>>
        /\ LET own == UserPool(cashoutSide, agreePool', disagreePool')
               opp == OppositePool(cashoutSide, agreePool', disagreePool')
               again == executeCashout(cashoutSide, cashoutStake, agreePool',
                                       disagreePool', cashoutEntry')
           IN (cashoutStake <= own /\ own > 0 /\ opp > 0)
                => /\ ~execDisabled'
                   /\ again.result.ok /\ again.applied
                   /\ again.result.entryOdds = cashoutEntry.entryOdds
                   /\ again.result.currentOdds =
                        getImpliedOdds(agreePool' + disagreePool', own)
                   /\ again.result.referenceValue =
                        RMul(FromInt(cashoutStake),
                             safeDivide(cashoutEntry.entryOdds,
                                        again.result.currentOdds))]_vars

\* C38 witness: a live match whose pools an executed cashout of side and
\* stake has brought down from two to one each; the snapshot still holds
\* the entry odds, the button is enabled and the stake is what is left on
\* the user's side
C38_Witness ==
  /\ variant = "mtm"
  /\ running /\ ~ended
  /\ cashoutArmed /\ ~execDisabled
  /\ cashoutEntry # NoEntry
  /\ cashoutEntry.side = cashoutSide /\ cashoutEntry.stake = cashoutStake
  /\ cashoutEntry.entryOdds = FromInt(2)
  /\ cashoutStake = 1
  /\ agreePool = 1 /\ disagreePool = 1

\* ------------------------------------------------------------------ C39
\* C39: on the mark-to-market page the negative-pool rejection of
\* executeCashout is never produced: whenever calculateCashout succeeds for
\* a side and stake on the current pools, the user's pool less the stake
\* and the opposite pool less exitPayout are both non-negative, so
\* executeCashout succeeds exactly when the valuation does.
C39_NegativePoolUnreachable ==
  variant = "mtm" =>
    \A side \in CashoutSides, stake \in ExStakes, entry \in EntrySnapshots :
      LET r == calculateCashout(side, stake, agreePool, disagreePool, entry)
          e == executeCashout(side, stake, agreePool, disagreePool, entry)
          own == IF side = "Agree" THEN agreePool ELSE disagreePool
          opp == IF side = "Agree" THEN disagreePool ELSE agreePool
      IN /\ r.ok => (own - stake >= 0 /\ RLe(r.exitPayout, FromInt(opp)))
         /\ e.result.ok <=> r.ok
         /\ e.result.reason # ReasonNegativePool

\* C39 witness: a live match valued for the whole of the user's side, which
\* is the larger one: the payout is capped by the opposite pool, and the
\* execution leaves the user's side at zero
C39_Witness ==
  /\ variant = "mtm"
  /\ running /\ ~ended
  /\ cashoutArmed /\ ~execDisabled
  /\ cashoutEntry # NoEntry
  /\ cashoutValueEl # Dash
  /\ cashoutStake = UserPool(cashoutSide, agreePool, disagreePool)
  /\ OppositePool(cashoutSide, agreePool, disagreePool) > 0
  /\ cashoutStake > OppositePool(cashoutSide, agreePool, disagreePool)

====
